---- MODULE Spec2Model ----
(***************************************************************************)
(* Model of the market-data pipeline (src/pipeline.py and the standalone   *)
(* scripts it consolidates): paginated fetch with fallback, normalisation  *)
(* of raw OpenAlex records, batched insert-if-absent upload into the       *)
(* PostgreSQL table created by create_papers_table, and the exit status.   *)
(***************************************************************************)
EXTENDS Integers, Sequences, FiniteSets, TLC

VARIABLES
    \* --- one process (one invocation of a script) -------------------------
    script,        \* "pipeline" (pipeline.py main) or "find_ai_papers" (get_recent_ai_papers)
    run,           \* number of the invocation, 1..MaxRuns
    pc,            \* position in run_pipeline
    hashSeed,      \* the process's str-hash seed
    connection,    \* self.connection: "none", "open", "closed"
    total_count,   \* fetch: works_query.count(), -1 before the call
    all_papers,    \* fetch: the accumulator
    page_num,      \* fetch: pages consumed by the loop
    papers,        \* self.papers
    stats,         \* self.stats
    overall,       \* upload: overall_stats
    bi,            \* upload: start index i of the current batch (0-based)
    bj,            \* process_papers_batch: records of the batch processed so far
    bstats,        \* process_papers_batch: stats
    result,        \* run_pipeline's return value: "none", "true", "false"
    failure,       \* the stage whose failure ended the run, "none" otherwise
    exitCode,      \* the process's exit status, -1 while it runs
    \* --- the world --------------------------------------------------------
    src,           \* the pages the source API holds for the query
    pageRequests,  \* next() calls made on the paginator in this run
    bulkCalls,     \* works_query.get() calls made in this run
    pageErrors,    \* next() calls on the paginator that raised in this run
    backup,        \* the backup file of this run: written flag and its papers
    tableExists,   \* the papers table exists in the store
    db,            \* the committed rows of the papers table
    work,          \* the rows as the connection's open transaction sees them
    txState,       \* the connection's transaction: "idle", "active", "failed"
    faults,        \* store faults the run may still meet
    \* --- what the run reported (its log lines) ------------------------------
    entries,       \* per record of the current batch: what happened to it
    batches,       \* per batch of this run: how its commit ended
    stages,        \* the steps of run_pipeline this run has entered, in order
    start,         \* the store as this run found it
    acquired,      \* store connections this run obtained
    released,      \* store connections this run closed
    wrote,         \* per batch of this run: the ids its records were inserted under
    test_results,  \* DataQualityTester.test_results: check name -> its entry
    check_raised,  \* an existence check of this run raised (and answered False)
    log,           \* per finished run: its input, counters and the store it left
    \* --- normaliser harness ------------------------------------------------
    nRaw,          \* the raw record handed to transform_paper_data
    nOut,          \* the outcome of each process's call on nRaw
    \* --- two pipelines at once ----------------------------------------------
    writers        \* per concurrent process: its place in the upload, its open
                   \* transaction and its counters; <<>> when there is one process

pvars == <<script, run, pc, hashSeed, connection, total_count, all_papers, page_num,
           papers, stats, overall, bi, bj, bstats, result, failure, exitCode,
           src, pageRequests, bulkCalls, pageErrors, backup, tableExists, db, work,
           txState, faults, entries, batches, stages, start, acquired,
           released,
           wrote,
           test_results,
           check_raised,
           log>>
nvars == <<nRaw, nOut, writers>>
vars == <<pvars, nvars>>

\* --- bounds of the model ---------------------------------------------------
MaxRuns == 2        \* invocations of the pipeline in one behaviour
MaxSeed == 1        \* hash seeds 0..MaxSeed
MaxSrcPages == 2    \* pages the source holds in the pipeline specification
MaxFaults == 1      \* store faults (rejected statement, failed commit) per run
MaxExtraPages == 2  \* pages the source holds beyond the ceiling (fetch specification)
NormRuns == 2       \* processes that normalise the same record
MaxAuthors == 3     \* authorship entries of a raw record (normaliser specification)
MaxBad == 2
MaxRows == 2           \* rows of the table the validator is run on         \* records of the batch scenario whose transform raises
BatchSize == 2      \* self.batch_size, scaled down from the default of 100
BulkSize == 2       \* records one non-paginated get() returns, scaled down

\* --- program constants -----------------------------------------------------
PageLimit == 50
CitationCeiling == 100000   \* "cited_by_count > 100000"
ScoreScale == 10000         \* DECIMAL(6,4): a score is a whole number of 1/10000
DuplicateLimit == 10        \* "LIMIT 10" of the duplicate queries     \* "if page_num >= 50"

----------------------------------------------------------------------------
(* JSON values as Python sees them.  A dict is a function from the keys    *)
(* that are present to their values; a key that is missing is not in the   *)
(* domain.                                                                 *)

Absent == [t |-> "absent"]
Null == [t |-> "null"]
JStr(s) == [t |-> "str", v |-> s]
JInt(n) == [t |-> "int", v |-> n]
JBool(b) == [t |-> "bool", v |-> b]
JList(s) == [t |-> "list", v |-> s]
\* a DECIMAL(6,4) column value: n ten-thousandths
JDec(n) == [t |-> "dec", v |-> n]
\* a dict literal: the fields given as Absent are left out
JObj(r) == [t |-> "obj", v |-> [k \in {x \in DOMAIN r : r[x] # Absent} |-> r[k]]]
EmptyObj == [t |-> "obj", v |-> [k \in {} |-> Null]]
EmptyList == JList(<<>>)

\* Python truthiness of a value (bool(x))
Truthy(x) ==
    CASE x.t = "null" -> FALSE
      [] x.t = "str"  -> x.v # ""
      [] x.t = "int"  -> x.v # 0
      [] x.t = "bool" -> x.v
      [] x.t = "list" -> Len(x.v) > 0
      [] x.t = "obj"  -> DOMAIN x.v # {}
      [] OTHER        -> FALSE

\* dict.get(k): the value, None when the key is missing
Get(o, k) == IF k \in DOMAIN o.v THEN o.v[k] ELSE Null
\* dict.get(k, d): the value, d when the key is missing (None when it is null)
GetD(o, k, d) == IF k \in DOMAIN o.v THEN o.v[k] ELSE d
\* a or b
PyOr(a, b) == IF Truthy(a) THEN a ELSE b

Range(s) == {s[i] : i \in DOMAIN s}

----------------------------------------------------------------------------
(* Record Normalizer: extract_paper_id and transform_paper_data.           *)

\* hash(str(paper)): Python salts str hashes with a per-process seed
\* (PYTHONHASHSEED); the result is a function of the seed and of the
\* serialised record, taken here without collisions.
PyHash(paper, seed) == ToString(seed) \o "#" \o ToString(paper.v)

Raised == [raised |-> TRUE]
Returned(x) == [raised |-> FALSE, val |-> x]

ExtractPaperId(paper, seed) ==
    IF Truthy(Get(paper, "id")) THEN Returned(paper.v["id"])
    ELSE IF Truthy(Get(paper, "doi")) THEN Returned(paper.v["doi"])
    ELSE LET ids == GetD(paper, "ids", EmptyObj) IN
         IF ids.t # "obj" THEN Raised      \* None.get: AttributeError
         ELSE IF Truthy(Get(ids, "openalex")) THEN Returned(ids.v["openalex"])
         ELSE Returned(JStr("fallback_" \o PyHash(paper, seed)))

\* the authorship entries that pass "if author and author.get(key)"
AuthorsWith(authorships, key) ==
    {a \in Range(authorships.v) : Truthy(a) /\ Truthy(Get(a, key))}

\* a variant of the country count without the set(): one per authorship
CountriesPerAuthorship(authorships) ==
    Cardinality({i \in DOMAIN authorships.v :
                    Truthy(authorships.v[i]) /\ Truthy(Get(authorships.v[i], "country_code"))})

CountriesDistinct(authorships) ==
    Cardinality({Get(a, "country_code") : a \in AuthorsWith(authorships, "country_code")})

InstitutionsDistinct(authorships) ==
    Cardinality(UNION {
        {Get(inst, "id") : inst \in {i \in Range(PyOr(Get(a, "institutions"), EmptyList).v) :
                                        Truthy(i) /\ Truthy(Get(i, "id"))}}
        : a \in AuthorsWith(authorships, "institutions")})

\* the column order of insert_paper's field list
Fields ==
    <<"id", "doi", "title", "display_name", "publication_year", "publication_date",
      "created_date", "updated_date", "language", "paper_type", "type_crossref",
      "is_open_access", "oa_status", "oa_url", "cited_by_count", "referenced_works_count",
      "authors_count", "countries_distinct_count", "institutions_distinct_count",
      "citation_normalized_percentile", "is_in_top_1_percent", "is_in_top_10_percent",
      "journal_name", "journal_issn", "journal_is_oa", "journal_is_indexed_scopus",
      "journal_is_core", "journal_host_organization", "primary_topic_name",
      "primary_topic_score", "primary_subfield_name", "primary_field_name",
      "primary_domain_name", "is_retracted", "is_paratext", "has_fulltext">>

TransformPaperData(paper, seed) ==
    LET pid == ExtractPaperId(paper, seed)
        primary_location == PyOr(Get(paper, "primary_location"), EmptyObj)
        source == PyOr(Get(primary_location, "source"), EmptyObj)
        topics == PyOr(Get(paper, "topics"), EmptyList)
        primary_topic == IF Truthy(topics) THEN topics.v[1] ELSE EmptyObj
        subfield == PyOr(Get(primary_topic, "subfield"), EmptyObj)
        field == PyOr(Get(primary_topic, "field"), EmptyObj)
        domain == PyOr(Get(primary_topic, "domain"), EmptyObj)
        citation_metrics == PyOr(Get(paper, "citation_metrics"), EmptyObj)
        authorships == PyOr(Get(paper, "authorships"), EmptyList)
        referenced_works == PyOr(Get(paper, "referenced_works"), EmptyList)
    IN  IF pid.raised THEN Raised
        ELSE IF primary_topic.t # "obj" THEN Raised   \* None.get: AttributeError
        ELSE Returned(
          [id |-> pid.val,
           doi |-> Get(paper, "doi"),
           title |-> PyOr(Get(paper, "title"), Get(paper, "display_name")),
           display_name |-> Get(paper, "display_name"),
           publication_year |-> Get(paper, "publication_year"),
           publication_date |-> Get(paper, "publication_date"),
           created_date |-> Get(paper, "created_date"),
           updated_date |-> Get(paper, "updated_date"),
           language |-> Get(paper, "language"),
           paper_type |-> Get(paper, "type"),
           type_crossref |-> Get(paper, "type_crossref"),
           is_open_access |-> Get(primary_location, "is_oa"),
           oa_status |-> Get(primary_location, "oa_status"),
           oa_url |-> Get(primary_location, "pdf_url"),
           cited_by_count |-> GetD(paper, "cited_by_count", JInt(0)),
           referenced_works_count |-> JInt(Len(referenced_works.v)),
           authors_count |-> JInt(Len(authorships.v)),
           countries_distinct_count |-> JInt(CountriesDistinct(authorships)),
           institutions_distinct_count |-> JInt(InstitutionsDistinct(authorships)),
           citation_normalized_percentile |-> Get(citation_metrics, "normalized_percentile"),
           is_in_top_1_percent |-> GetD(citation_metrics, "is_in_top_1_percent", JBool(FALSE)),
           is_in_top_10_percent |-> GetD(citation_metrics, "is_in_top_10_percent", JBool(FALSE)),
           journal_name |-> Get(source, "display_name"),
           journal_issn |-> Get(source, "issn_l"),
           journal_is_oa |-> Get(source, "is_oa"),
           journal_is_indexed_scopus |-> Get(source, "is_indexed_in_scopus"),
           journal_is_core |-> Get(source, "is_core"),
           journal_host_organization |-> Get(source, "host_organization_name"),
           primary_topic_name |-> Get(primary_topic, "display_name"),
           primary_topic_score |-> Get(primary_topic, "score"),
           primary_subfield_name |-> Get(subfield, "display_name"),
           primary_field_name |-> Get(field, "display_name"),
           primary_domain_name |-> Get(domain, "display_name"),
           is_retracted |-> GetD(paper, "is_retracted", JBool(FALSE)),
           is_paratext |-> GetD(paper, "is_paratext", JBool(FALSE)),
           has_fulltext |-> GetD(paper, "has_fulltext", JBool(FALSE))])


----------------------------------------------------------------------------
(* The raw records and pages the source is taken to hold.                  *)

RawA == JObj([id |-> JStr("W1"), doi |-> JStr("D1"), title |-> JStr("T1"), cited_by_count |-> JInt(1)])
\* W1 again, fetched later: more citations, another doi
RawA2 == JObj([id |-> JStr("W1"), doi |-> JStr("D2"), title |-> JStr("T1"), cited_by_count |-> JInt(2)])
\* W1 again, with every kind of field changed
RawA3 ==
    JObj([id |-> JStr("W1"), doi |-> JStr("D3"), title |-> JStr("T1b"),
          language |-> JStr("fr"), type |-> JStr("review"), cited_by_count |-> JInt(3),
          publication_year |-> JInt(2024),
          primary_location |-> JObj([is_oa |-> JBool(TRUE),
                                     source |-> JObj([display_name |-> JStr("J1")])]),
          topics |-> JList(<<JObj([display_name |-> JStr("Tp1")])>>)])
RawB == JObj([id |-> JStr("W2"), title |-> JStr("T2")])
\* neither title nor display_name
RawNoTitle == JObj([id |-> JStr("W3"), cited_by_count |-> JInt(3)])
\* the doi of W1 under another identifier
RawDupDoi == JObj([id |-> JStr("W4"), doi |-> JStr("D1"), title |-> JStr("T4")])
\* W1 again, with neither title nor display_name
RawA0 == JObj([id |-> JStr("W1"), cited_by_count |-> JInt(4)])
\* W2 again, now with the doi of W1
RawB2 == JObj([id |-> JStr("W2"), doi |-> JStr("D1"), title |-> JStr("T2")])
\* no id, no doi, no ids
RawNoId == JObj([title |-> JStr("T5")])
\* "ids": null
RawNullIds == JObj([ids |-> Null, title |-> JStr("T6")])

Pages ==
    { <<RawA, RawB>>, <<RawNoTitle, RawB>>, <<RawA2>>, <<RawNoId>>,
      <<RawNullIds, RawB>>, <<RawDupDoi>> }

\* what the source holds in the runs of the rerun specification
RerunSources ==
    { << <<RawA, RawB>> >>, << <<RawA2>> >>, << <<RawNoId>> >>,
      << <<RawA, RawB>>, <<RawNoId>> >>, <<>>,
      << <<RawDupDoi, RawNoTitle>> >>, << <<RawA0, RawB2>> >> }

\* the sequences over S of length at most n
SeqsUpTo(S, n) == UNION {[1..k -> S] : k \in 0..n}

RECURSIVE Flatten(_)
Flatten(pp) == IF pp = <<>> THEN <<>> ELSE Head(pp) \o Flatten(Tail(pp))

Prefix(s, n) == SubSeq(s, 1, IF Len(s) < n THEN Len(s) ELSE n)

\* the seeds a process reading the pages pp is taken with: the seed shows
\* only in the id of a record that is hashed, so a process that hashes no
\* record is taken with seed 0 alone
Seeds(pp) ==
    IF \E k \in DOMAIN Flatten(pp) : \E s \in 0..MaxSeed :
          ExtractPaperId(Flatten(pp)[k], s) # ExtractPaperId(Flatten(pp)[k], 0)
    THEN 0..MaxSeed
    ELSE {0}

----------------------------------------------------------------------------
(* The papers table of create_papers_table and the statements run on it.   *)
(* psycopg2 connections are not in autocommit mode: the first statement    *)
(* opens a transaction; a statement the server rejects leaves it aborted,  *)
(* every later statement in it is rejected until the transaction ends, and *)
(* COMMIT of an aborted transaction rolls it back without raising.         *)

Ids(table) == {r.id : r \in table}

\* columns the ON CONFLICT (id) DO UPDATE clause assigns from EXCLUDED
ConflictFields ==
    {"title", "display_name", "publication_year", "publication_date",
     "cited_by_count", "referenced_works_count", "authors_count",
     "countries_distinct_count", "institutions_distinct_count",
     "citation_normalized_percentile", "is_in_top_1_percent", "is_in_top_10_percent"}

\* a new row: the values given, created_at and updated_at by default
NewRow(rec, now) ==
    [k \in DOMAIN rec \cup {"created_at", "updated_at"} |->
        IF k \in DOMAIN rec THEN rec[k] ELSE JInt(now)]

\* a variant of DO UPDATE SET that assigns every column from EXCLUDED
UpdatedRowAllFields(old, rec, now) ==
    [k \in DOMAIN old |->
        IF k = "updated_at" THEN JInt(now)
        ELSE IF k \in DOMAIN rec THEN rec[k]
        ELSE old[k]]

\* the row after DO UPDATE SET
UpdatedRow(old, rec, now) ==
    [k \in DOMAIN old |->
        IF k = "updated_at" THEN JInt(now)
        ELSE IF k \in ConflictFields THEN rec[k]
        ELSE old[k]]

\* a variant of the table without NOT NULL on title
NotNullOkUnchecked(rec) == TRUE

\* title TEXT NOT NULL, checked on the proposed row before the conflict test
NotNullOk(rec) == rec.title # Null

\* doi VARCHAR(500) UNIQUE: violated by another row with the same non-null doi
DoiFree(table, rec) ==
    rec.doi = Null \/ \A r \in table : r.doi # rec.doi

\* INSERT INTO papers (...) VALUES (...) ON CONFLICT (id) DO UPDATE SET ...
\* ok: the server accepted the statement; table: the rows after it
InsertSql(table, rec, now) ==
    IF ~NotNullOk(rec) THEN [ok |-> FALSE, table |-> table]
    ELSE IF rec.id \in Ids(table)
         THEN [ok |-> TRUE,
               table |-> {IF r.id = rec.id THEN UpdatedRow(r, rec, now) ELSE r : r \in table}]
    ELSE IF ~DoiFree(table, rec) THEN [ok |-> FALSE, table |-> table]
    ELSE [ok |-> TRUE, table |-> table \cup {NewRow(rec, now)}]

\* a variant of the lookup that finds no row
SelectExistsNever(table, id) == FALSE

\* SELECT 1 FROM papers WHERE id = %s ... fetchone() is not None
SelectExists(table, id) == id \in Ids(table)

----------------------------------------------------------------------------
(* Data Quality Validator: DataQualityTester (data_quality_tests.py).      *)
(* The table it reads need not be the one create_papers_table creates      *)
(* (CREATE TABLE IF NOT EXISTS keeps a table that is already there), so    *)
(* rows may share an id or a doi and may lack an id or a title.            *)

TestNames ==
    <<"missing_required_fields", "citation_count_validation",
      "score_range_validation", "duplicate_detection">>

\* self.test_results = {}
NoResults == [n \in {} |-> [status |-> "ERROR"]]

\* SQL comparisons of a column with a number: unknown, so not counted, on NULL
SqlLess(x, n) == x # Null /\ x.v < n
SqlGreater(x, n) == x # Null /\ x.v > n

\* MIN(col), MAX(col) and AVG(col) over the rows: NULLs are left out, and
\* the aggregate of no value is NULL
NonNull(table, col) == {r \in table : r[col] # Null}
SqlMin(table, col) ==
    IF NonNull(table, col) = {} THEN Null
    ELSE (CHOOSE r \in NonNull(table, col) :
            \A q \in NonNull(table, col) : r[col].v <= q[col].v)[col]
SqlMax(table, col) ==
    IF NonNull(table, col) = {} THEN Null
    ELSE (CHOOSE r \in NonNull(table, col) :
            \A q \in NonNull(table, col) : r[col].v >= q[col].v)[col]
RECURSIVE SumOf(_, _)
SumOf(rows, col) ==
    IF rows = {} THEN 0
    ELSE LET r == CHOOSE x \in rows : TRUE IN r[col].v + SumOf(rows \ {r}, col)
\* "round(avg, k) if avg else None", the mean kept as an exact fraction
AvgOrNone(table, col) ==
    IF NonNull(table, col) = {} \/ SumOf(NonNull(table, col), col) = 0 THEN Null
    ELSE [t |-> "frac", num |-> SumOf(NonNull(table, col), col),
          den |-> Cardinality(NonNull(table, col))]

PassUnless(anomalies) == IF anomalies THEN "FAIL" ELSE "PASS"

\* a variant of the completeness check that wants both fields missing
MissingBothRequired(r) == r.id = Null /\ r.title = Null

\* "WHEN id IS NULL OR title IS NULL"
MissingAnyRequired(r) == r.id = Null \/ r.title = Null

\* test_missing_required_fields, its try block
MissingRequiredFields(table) ==
    LET missing_id == Cardinality({r \in table : r.id = Null})
        missing_title == Cardinality({r \in table : r.title = Null})
        missing_any == Cardinality({r \in table : MissingAnyRequired(r)})
    IN  [total_papers |-> Cardinality(table),
         missing_id |-> missing_id,
         missing_title |-> missing_title,
         missing_any_required |-> missing_any,
         status |-> IF missing_any = 0 THEN "PASS" ELSE "FAIL"]

\* a variant of the citation check with the ceiling itself out of range
CitationAnomaliesFromCeiling(negative_citations, extremely_high, table) ==
    negative_citations > 0 \/
    Cardinality({r \in table : SqlGreater(r.cited_by_count, CitationCeiling - 1)}) > 0

\* has_anomalies of the citation check
CitationAnomalies(negative_citations, extremely_high, table) ==
    negative_citations > 0 \/ extremely_high > 0

\* test_citation_count_validation, its try block
CitationCountValidation(table) ==
    LET negative_citations ==
            Cardinality({r \in table : SqlLess(r.cited_by_count, 0)})
        extremely_high ==
            Cardinality({r \in table : SqlGreater(r.cited_by_count, CitationCeiling)})
    IN  [total_papers |-> Cardinality(table),
         negative_citations |-> negative_citations,
         extremely_high_citations |-> extremely_high,
         null_citations |-> Cardinality({r \in table : r.cited_by_count = Null}),
         min_citations |-> SqlMin(table, "cited_by_count"),
         max_citations |-> SqlMax(table, "cited_by_count"),
         avg_citations |-> AvgOrNone(table, "cited_by_count"),
         status |-> PassUnless(CitationAnomalies(negative_citations, extremely_high, table))]

\* "WHERE primary_topic_score IS NOT NULL"
ScoredRows(table) == {r \in table : r.primary_topic_score # Null}

\* a variant of the score check with an exclusive upper bound
ScoreAboveOneInclusive(x) == x # Null /\ x.v >= 1 * ScoreScale

\* "primary_topic_score > 1"
ScoreAboveOne(x) == SqlGreater(x, 1 * ScoreScale)

\* test_score_range_validation, its try block
ScoreRangeValidation(table) ==
    LET scored == ScoredRows(table)
        negative_scores ==
            Cardinality({r \in scored : SqlLess(r.primary_topic_score, 0)})
        scores_above_one ==
            Cardinality({r \in scored : ScoreAboveOne(r.primary_topic_score)})
    IN  [total_papers_with_scores |-> Cardinality(scored),
         negative_scores |-> negative_scores,
         scores_above_one |-> scores_above_one,
         null_scores |-> Cardinality({r \in scored : r.primary_topic_score = Null}),
         min_score |-> SqlMin(scored, "primary_topic_score"),
         max_score |-> SqlMax(scored, "primary_topic_score"),
         avg_score |-> AvgOrNone(scored, "primary_topic_score"),
         status |-> PassUnless(negative_scores > 0 \/ scores_above_one > 0)]

\* a variant of the duplicate queries without "WHERE ... IS NOT NULL"
DuplicateGroupsWithNull(table, col) ==
    {v \in {r[col] : r \in table} : Cardinality({r \in table : r[col] = v}) > 1}

\* SELECT col, COUNT(*) FROM papers WHERE col IS NOT NULL
\* GROUP BY col HAVING COUNT(*) > 1: the values of the groups
DuplicateGroups(table, col) ==
    {v \in {r[col] : r \in table} \ {Null} :
        Cardinality({r \in table : r[col] = v}) > 1}

\* len(cursor.fetchall()) of a query that ends in LIMIT 10
Fetched(groups) ==
    IF Cardinality(groups) > DuplicateLimit THEN DuplicateLimit ELSE Cardinality(groups)

\* test_duplicate_detection, its try block
DuplicateDetection(table) ==
    LET total_duplicate_ids == Fetched(DuplicateGroups(table, "id"))
        total_duplicate_dois == Fetched(DuplicateGroups(table, "doi"))
    IN  [duplicate_ids |-> total_duplicate_ids,
         duplicate_dois |-> total_duplicate_dois,
         total_duplicates |-> total_duplicate_ids + total_duplicate_dois,
         status |-> PassUnless(total_duplicate_ids > 0 \/ total_duplicate_dois > 0)]

\* what a check computes from the table when its statements run
CheckResult(name, table) ==
    CASE name = "missing_required_fields" -> MissingRequiredFields(table)
      [] name = "citation_count_validation" -> CitationCountValidation(table)
      [] name = "score_range_validation" -> ScoreRangeValidation(table)
      [] name = "duplicate_detection" -> DuplicateDetection(table)

\* the except block of a check: {'error': str(e), 'status': 'ERROR'}
ErrorResult(e) == [error |-> e, status |-> "ERROR"]

\* the transaction after a check's except block (it does not roll back):
\* aborted once the server rejected a statement
TxAfterError(tx, f) == IF f = "server" THEN "failed" ELSE tx

\* one test_* method, with the transaction in state tx: [entry, tx]
\*   f = "client": a call of the check raises without the server's doing
\*   f = "server": the server rejects a statement of the check (the table or
\*                 a column is missing, the statement is cancelled)
RunCheck(name, exists, table, tx, f) ==
    IF tx = "failed"
    THEN [entry |-> ErrorResult("InFailedSqlTransaction"), tx |-> "failed"]
    ELSE IF ~exists
    THEN [entry |-> ErrorResult("UndefinedTable"), tx |-> TxAfterError(tx, "server")]
    ELSE IF f # "none"
    THEN [entry |-> ErrorResult(f), tx |-> TxAfterError(tx, f)]
    ELSE [entry |-> CheckResult(name, table), tx |-> "active"]

\* run_all_tests: the four checks in order, each in the transaction state
\* its predecessor left; ff[i] is what the i-th check meets
RECURSIVE TxBefore(_, _, _, _, _)
TxBefore(i, exists, table, tx, ff) ==
    IF i = 1 THEN tx
    ELSE RunCheck(TestNames[i - 1], exists, table,
                  TxBefore(i - 1, exists, table, tx, ff), ff[i - 1]).tx

\* ff is what the checks of one run can meet: a fault strikes a statement
\* that would have run, not one the server ignores anyway
Strikes(exists, table, tx, ff) ==
    \A i \in DOMAIN ff :
        ff[i] # "none" => exists /\ TxBefore(i, exists, table, tx, ff) # "failed"

\* the faults are met by the first checks, those the server rejects last:
\* the order run_data_quality_tests is taken with, whose tester and entries
\* are gone when it returns, so that which check met a fault does not show
FirstChecks(ff) ==
    \A i \in DOMAIN ff \ {1} :
        /\ ff[i] # "none" => ff[i - 1] # "none"
        /\ ff[i] = "client" => ff[i - 1] = "client"

RunAllTests(exists, table, tx, ff) ==
    [results |->
        [n \in Range(TestNames) |->
            LET i == CHOOSE j \in DOMAIN TestNames : TestNames[j] = n
            IN  RunCheck(n, exists, table, TxBefore(i, exists, table, tx, ff), ff[i]).entry],
     tx |-> TxBefore(Len(TestNames) + 1, exists, table, tx, ff)]

----------------------------------------------------------------------------
(* One process: MarketDataPipeline.__init__ and the state around it.       *)

ZeroStats == [papers_fetched |-> 0, papers_inserted |-> 0, papers_skipped |-> 0, errors |-> 0]
NewBatchStats(n) == [total |-> n, inserted |-> 0, updated |-> 0, skipped |-> 0, errors |-> 0]
NoBackup == [written |-> FALSE, papers |-> <<>>]

\* the fields __init__ sets, and the locals before their first assignment
NewProcess ==
    /\ connection' = "none"
    /\ papers' = <<>>
    /\ stats' = ZeroStats
    /\ total_count' = -1
    /\ all_papers' = <<>>
    /\ page_num' = 0
    /\ overall' = NewBatchStats(0)
    /\ bi' = 0
    /\ bj' = 0
    /\ bstats' = NewBatchStats(0)
    /\ result' = "none"
    /\ failure' = "none"
    /\ exitCode' = -1
    /\ pageRequests' = 0
    /\ bulkCalls' = 0
    /\ pageErrors' = 0
    /\ backup' = NoBackup
    /\ entries' = <<>>
    /\ batches' = <<>>
    /\ stages' = <<>>
    /\ check_raised' = FALSE
    /\ test_results' = NoResults
    /\ wrote' = <<>>
    /\ released' = 0
    /\ acquired' = 0

\* run_pipeline returns False from stage st; control goes to the finally block
ReturnFalse(st) ==
    /\ result' = "false"
    /\ failure' = st
    /\ pc' = "finally"

\* connect_database: get_database_connection returns a tested handle or None
ConnectDatabase ==
    /\ script = "pipeline"
    /\ pc = "start"
    /\ stages' = Append(stages, "connect")
    /\ \E ok \in BOOLEAN :
        IF ok
        THEN /\ connection' = "open"
             /\ txState' = "active"          \* test_connection's SELECT version()
             /\ acquired' = acquired + 1
             /\ pc' = "fetch_count"
             /\ UNCHANGED <<released, result, failure>>
        ELSE \* psycopg2.connect failed, or test_connection did and
             \* get_database_connection closed the handle it had obtained
             /\ \E tested \in BOOLEAN :
                  /\ acquired' = acquired + (IF tested THEN 1 ELSE 0)
                  /\ released' = released + (IF tested THEN 1 ELSE 0)
             /\ ReturnFalse("connect")
             /\ UNCHANGED <<connection, txState>>
    /\ UNCHANGED <<check_raised, test_results, wrote, pageErrors, start, script, run, hashSeed, total_count, all_papers, page_num, papers,
                   stats, overall, bi, bj, bstats, exitCode, src, pageRequests,
                   bulkCalls, backup, tableExists, db, work, faults, entries,
                   batches, log, nvars>>

----------------------------------------------------------------------------
(* Paginated Fetcher: fetch_recent_papers (pipeline.py) and                *)
(* get_recent_ai_papers (find_ai_papers.py).                               *)

\* the fetch returned all_papers to its caller
FetchReturns(ap) ==
    IF script = "pipeline"
    THEN \* self.papers = all_papers; papers_fetched; return True, then
         \* run_pipeline: "if not self.papers: return True"
         /\ papers' = ap
         /\ stats' = [stats EXCEPT !.papers_fetched = Len(ap)]
         /\ IF ap = <<>>
            THEN /\ result' = "true"
                 /\ pc' = "finally"
            ELSE /\ pc' = "backup"
                 /\ UNCHANGED result
         /\ UNCHANGED failure
    ELSE /\ papers' = ap
         /\ pc' = "returned"
         /\ UNCHANGED <<stats, result, failure>>

\* the fetch raised to its caller
FetchRaises ==
    IF script = "pipeline"
    THEN /\ ReturnFalse("fetch")             \* except Exception: return False
         /\ UNCHANGED <<papers, stats>>
    ELSE /\ pc' = "raised"
         /\ failure' = "fetch"
         /\ UNCHANGED <<papers, stats, result>>

\* works_query.count() and the zero test that follows it
FetchCount ==
    /\ pc = "fetch_count"
    /\ stages' = Append(stages, "fetch")
    /\ \E ok \in BOOLEAN :
        IF ~ok
        THEN /\ FetchRaises
             /\ UNCHANGED total_count
        ELSE LET n == Len(Flatten(src)) IN
             /\ total_count' = n
             /\ IF script = "pipeline" /\ n = 0
                THEN \* "No papers found for the specified criteria": return True
                     /\ result' = "true"
                     /\ pc' = "finally"
                     /\ UNCHANGED <<papers, stats, failure>>
                ELSE /\ pc' = "paginate"
                     /\ UNCHANGED <<papers, stats, result, failure>>
    /\ UNCHANGED <<check_raised, test_results, wrote, released, acquired, pageErrors, start, script, run, hashSeed, connection, all_papers, page_num, overall,
                   bi, bj, bstats, exitCode, src, pageRequests, bulkCalls, backup,
                   tableExists, db, work, txState, faults, entries, batches, log, nvars>>

\* the loop has ended; the success line divides by total_count
AfterLoop(ap) ==
    IF total_count = 0
    THEN /\ pc' = "fallback"                 \* ZeroDivisionError, caught by the inner except
         /\ UNCHANGED <<papers, stats, result, failure>>
    ELSE FetchReturns(ap)

\* a variant of the loop's test that is off by one (page_num > 50)
LimitReachedLate(n) == n > PageLimit

\* the loop's test: stop after this page?
LimitReached(n) == n >= PageLimit

\* one next() on the paginator and the loop body for the page it yields
PaginateStep ==
    /\ pc = "paginate"
    /\ pageRequests' = pageRequests + 1
    /\ \E ok \in BOOLEAN :
        IF ~ok
        THEN \* the request raises: the inner except takes over
             /\ pc' = "fallback"
             /\ pageErrors' = pageErrors + 1
             /\ UNCHANGED <<all_papers, page_num, papers, stats, result, failure>>
        ELSE IF page_num < Len(src)
        THEN LET ap == all_papers \o src[page_num + 1] IN
             /\ all_papers' = ap
             /\ page_num' = page_num + 1
             /\ IF LimitReached(page_num + 1)
                THEN AfterLoop(ap)
                ELSE /\ pc' = "paginate"
                     /\ UNCHANGED <<papers, stats, result, failure>>
             /\ UNCHANGED pageErrors
        ELSE \* the paginator is exhausted
             /\ AfterLoop(all_papers)
             /\ UNCHANGED <<all_papers, page_num, pageErrors>>
    /\ UNCHANGED <<check_raised, test_results, wrote, released, acquired, stages, start, script, run, hashSeed, connection, total_count, overall, bi, bj,
                   bstats, exitCode, src, bulkCalls, backup, tableExists, db, work,
                   txState, faults, entries, batches, log, nvars>>

\* a variant that keeps the pages already accumulated (all_papers.extend)
FallbackResultKeepPages(ap, bulk) == ap \o bulk

\* what all_papers becomes when get() returned bulk
FallbackResult(ap, bulk) == bulk

\* the inner except: all_papers = works_query.get()
FallbackGet ==
    /\ pc = "fallback"
    /\ bulkCalls' = bulkCalls + 1
    /\ \E ok \in BOOLEAN :
        IF ok
        THEN LET ap == FallbackResult(all_papers, Prefix(Flatten(src), BulkSize)) IN
             /\ all_papers' = ap
             /\ FetchReturns(ap)
        ELSE /\ FetchRaises
             /\ UNCHANGED all_papers
    /\ UNCHANGED <<check_raised, test_results, wrote, released, acquired, pageErrors, stages, start, script, run, hashSeed, connection, total_count, page_num, overall,
                   bi, bj, bstats, exitCode, src, pageRequests, backup, tableExists,
                   db, work, txState, faults, entries, batches, log, nvars>>

----------------------------------------------------------------------------
(* run_pipeline, steps 3 and 4: the backup file and the table.             *)

\* a variant of the backup that holds the first record only
OutputPapersFirstOnly(pp) == Prefix(pp, 1)

\* output_data['papers']: self.papers, the records as the source returned them
OutputPapers(pp) == pp

\* save_papers_to_json: an I/O error is not caught there and reaches
\* run_pipeline's "except Exception"
SaveBackup ==
    /\ pc = "backup"
    /\ stages' = Append(stages, "backup")
    /\ \E ok \in BOOLEAN :
        IF ok
        THEN /\ backup' = [written |-> TRUE, papers |-> OutputPapers(papers)]
             /\ pc' = "schema"
             /\ UNCHANGED <<result, failure>>
        ELSE /\ ReturnFalse("backup")
             /\ UNCHANGED backup
    /\ UNCHANGED <<check_raised, test_results, wrote, released, acquired, pageErrors, start, script, run, hashSeed, connection, total_count, all_papers, page_num,
                   papers, stats, overall, bi, bj, bstats, exitCode, src, pageRequests,
                   bulkCalls, tableExists, db, work, txState, faults, entries,
                   batches, log, nvars>>

\* a variant that cuts the batches from the end of self.papers
BatchAtFromEnd(i) ==
    SubSeq(papers,
           IF Len(papers) - i - BatchSize + 1 > 1 THEN Len(papers) - i - BatchSize + 1 ELSE 1,
           Len(papers) - i)

\* the batch that starts at index i: self.papers[i:i + self.batch_size]
BatchAt(i) == SubSeq(papers, i + 1, IF i + BatchSize < Len(papers) THEN i + BatchSize ELSE Len(papers))

\* upload_papers_to_database up to the first call of process_papers_batch
BeginUpload ==
    /\ overall' = NewBatchStats(Len(papers))
    /\ bi' = 0
    /\ bj' = 0
    /\ bstats' = NewBatchStats(Len(BatchAt(0)))
    /\ pc' = "upload"

\* ensure_table_exists: check_table_exists, then create_papers_table
\* (CREATE TABLE IF NOT EXISTS, commit; rollback when it fails)
EnsureTableExists ==
    /\ pc = "schema"
    /\ \E force \in BOOLEAN, ok \in BOOLEAN :
        IF tableExists /\ ~force
        THEN /\ BeginUpload
             /\ stages' = stages \o <<"schema", "upload">>
             /\ UNCHANGED <<tableExists, txState, result, failure>>
        ELSE IF ok
        THEN /\ tableExists' = TRUE
             /\ txState' = "idle"
             /\ BeginUpload
             /\ stages' = stages \o <<"schema", "upload">>
             /\ UNCHANGED <<result, failure>>
        ELSE /\ ReturnFalse("schema")
             /\ stages' = Append(stages, "schema")
             /\ txState' = "idle"
             /\ UNCHANGED <<tableExists, overall, bi, bj, bstats>>
    /\ UNCHANGED <<check_raised, test_results, wrote, released, acquired, pageErrors, start, script, run, hashSeed, connection, total_count, all_papers, page_num,
                   papers, stats, exitCode, src, pageRequests, bulkCalls, backup, db,
                   work, faults, entries, batches, log, nvars>>

----------------------------------------------------------------------------
(* Upsert Engine: check_paper_exists, insert_paper, process_papers_batch   *)
(* and the batch loop of upload_papers_to_database.                        *)

FaultKinds == {"none", "client", "server"}
Cost(f) == IF f = "none" THEN 0 ELSE 1
\* the faults a sequence of fault kinds takes from the budget
RECURSIVE TotalCost(_)
TotalCost(ff) == IF ff = <<>> THEN 0 ELSE Cost(Head(ff)) + TotalCost(Tail(ff))

\* a variant in which a check that raises answers True
CheckPaperExistsRaisedTrue(id, cf) ==
    IF txState = "failed" THEN [exists |-> TRUE, tx |-> "failed"]
    ELSE IF cf = "client" THEN [exists |-> TRUE, tx |-> txState]
    ELSE IF cf = "server" THEN [exists |-> TRUE, tx |-> "failed"]
    ELSE [exists |-> SelectExists(work, id), tx |-> "active"]

\* a variant in which the lookup sees the committed rows only
CheckPaperExistsCommitted(id, cf) ==
    IF txState = "failed" THEN [exists |-> FALSE, tx |-> "failed"]
    ELSE IF cf = "client" THEN [exists |-> FALSE, tx |-> txState]
    ELSE IF cf = "server" THEN [exists |-> FALSE, tx |-> "failed"]
    ELSE [exists |-> SelectExists(db, id), tx |-> "active"]

\* check_paper_exists: [exists, tx]. Any exception is caught and answered False.
\*   cf = "client": the call raises before the server ran the statement
\*   cf = "server": the server rejects the statement
CheckPaperExists(id, cf) ==
    IF txState = "failed" THEN [exists |-> FALSE, tx |-> "failed"]
    ELSE IF cf = "client" THEN [exists |-> FALSE, tx |-> txState]
    ELSE IF cf = "server" THEN [exists |-> FALSE, tx |-> "failed"]
    ELSE [exists |-> SelectExists(work, id), tx |-> "active"]

\* insert_paper in transaction state tx: [ok, table, tx].
\* Any exception is caught and answered False; nothing is rolled back.
InsertPaper(rec, tx, inf) ==
    IF tx = "failed" THEN [ok |-> FALSE, table |-> work, tx |-> "failed"]
    ELSE IF inf = "client" THEN [ok |-> FALSE, table |-> work, tx |-> tx]
    ELSE IF inf = "server" THEN [ok |-> FALSE, table |-> work, tx |-> "failed"]
    ELSE LET r == InsertSql(work, rec, run) IN
         IF r.ok THEN [ok |-> TRUE, table |-> r.table, tx |-> "active"]
         ELSE [ok |-> FALSE, table |-> work, tx |-> "failed"]

\* the loop body once the transform returned: the existence check, then
\* the insert unless the record is there
CheckThenInsert(t, cf, inf) ==
    LET chk == CheckPaperExists(t.val.id, cf) IN
    IF chk.exists
    THEN [outcome |-> "skipped", table |-> work, tx |-> chk.tx]
    ELSE LET ins == InsertPaper(t.val, chk.tx, inf) IN
         [outcome |-> IF ins.ok THEN "inserted" ELSE "error",
          table |-> ins.table, tx |-> ins.tx]

\* a variant in which a transform failure leaves the transaction aborted
ProcessOneAbortsBatch(t, cf, inf) ==
    IF t.raised THEN [outcome |-> "error", table |-> work, tx |-> "failed"]
    ELSE CheckThenInsert(t, cf, inf)

\* one iteration of process_papers_batch's loop: [outcome, table, tx]
ProcessOne(t, cf, inf) ==
    IF t.raised THEN [outcome |-> "error", table |-> work, tx |-> txState]
    ELSE CheckThenInsert(t, cf, inf)

\* a variant that counts a skipped record as inserted as well
BumpCountsTwice(st, outcome) ==
    CASE outcome = "inserted" -> [st EXCEPT !.inserted = @ + 1]
      [] outcome = "skipped"  -> [st EXCEPT !.skipped = @ + 1, !.inserted = @ + 1]
      [] OTHER                -> [st EXCEPT !.errors = @ + 1]

\* stats[...] += 1 for the outcome of one record
Bump(st, outcome) ==
    CASE outcome = "inserted" -> [st EXCEPT !.inserted = @ + 1]
      [] outcome = "skipped"  -> [st EXCEPT !.skipped = @ + 1]
      [] OTHER                -> [st EXCEPT !.errors = @ + 1]

ProcessRecord ==
    /\ pc = "upload"
    /\ bj < Len(BatchAt(bi))
    /\ LET t == TransformPaperData(BatchAt(bi)[bj + 1], hashSeed) IN
       \E cf \in FaultKinds, inf \in FaultKinds :
          /\ Cost(cf) + Cost(inf) <= faults
          \* a fault is injected only into a statement that is issued
          /\ (t.raised \/ txState = "failed") => cf = "none"
          /\ (t.raised \/ CheckPaperExists(t.val.id, cf).exists
                \/ CheckPaperExists(t.val.id, cf).tx = "failed") => inf = "none"
          /\ LET o == ProcessOne(t, cf, inf) IN
             /\ work' = o.table
             /\ txState' = o.tx
             /\ bstats' = Bump(bstats, o.outcome)
             /\ faults' = faults - (Cost(cf) + Cost(inf))
             /\ check_raised' = (check_raised
                                  \/ (~t.raised /\ (txState = "failed" \/ cf # "none")))
             /\ entries' = Append(IF bj = 0 THEN <<>> ELSE entries,
                    [t |-> t,
                     found |-> IF t.raised THEN {} ELSE {r \in work : r.id = t.val.id},
                     existed |-> ~t.raised /\ SelectExists(work, t.val.id),
                     writable |-> ~t.raised /\ InsertSql(work, t.val, run).ok,
                     faulted |-> cf # "none" \/ inf # "none",
                     check |-> IF t.raised THEN "none"
                               ELSE IF txState = "failed" \/ cf # "none" THEN "raised"
                               ELSE "returned",
                     outcome |-> o.outcome])
    /\ bj' = bj + 1
    /\ UNCHANGED <<test_results, wrote, released, acquired, pageErrors, stages, start, script, run, pc, hashSeed, connection, total_count, all_papers,
                   page_num, papers, stats, overall, bi, result, failure, exitCode,
                   src, pageRequests, bulkCalls, backup, tableExists, db, batches,
                   log, nvars>>

\* the statements after process_papers_batch returned: the counters, then
\* self.connection.commit(); after the last batch, self.stats and return True
CommitBatch ==
    /\ pc = "upload"
    /\ bj = Len(BatchAt(bi))
    /\ LET ov == [overall EXCEPT !.inserted = @ + bstats.inserted,
                                 !.skipped = @ + bstats.skipped,
                                 !.errors = @ + bstats.errors]
       IN
       /\ overall' = ov
       /\ wrote' = Append(wrote, {entries[k].t.val.id :
                                    k \in {j \in DOMAIN entries : entries[j].outcome = "inserted"}})
       /\ \E ok \in BOOLEAN :
           /\ ~ok => faults > 0
           /\ IF ~ok
              THEN \* commit() raises: "except Exception: return False"
                   /\ ReturnFalse("upload")
                   /\ faults' = faults - 1
                   /\ batches' = Append(batches, "commit_failed")
                   /\ UNCHANGED <<db, work, txState, bi, bj, bstats, stats>>
              ELSE /\ db' = IF txState = "failed" THEN db ELSE work
                   /\ work' = IF txState = "failed" THEN db ELSE work
                   /\ txState' = "idle"
                   /\ batches' = Append(batches,
                          IF txState = "failed" THEN "rolled_back" ELSE "committed")
                   /\ bi' = bi + BatchSize
                   /\ bj' = 0
                   /\ bstats' = NewBatchStats(Len(BatchAt(bi + BatchSize)))
                   /\ IF bi + BatchSize >= Len(papers)
                      THEN /\ stats' = [stats EXCEPT !.papers_inserted = ov.inserted,
                                                     !.papers_skipped = ov.skipped,
                                                     !.errors = ov.errors]
                           /\ pc' = "quality"
                      ELSE /\ pc' = "upload"
                           /\ UNCHANGED stats
                   /\ UNCHANGED <<faults, result, failure>>
    /\ UNCHANGED <<check_raised, test_results, released, acquired, pageErrors, stages, start, script, run, hashSeed, connection, total_count, all_papers, page_num,
                   papers, exitCode, src, pageRequests, bulkCalls, backup, tableExists,
                   entries, log, nvars>>

----------------------------------------------------------------------------
(* run_pipeline, step 6 and the finally block; main's exit status.         *)

\* step 6: run_data_quality_tests unless skip_quality_tests; the checks read
\* the table through the pipeline's connection, and a False return (the
\* report could not be written) is only a warning.  The tester is a local
\* of run_data_quality_tests: its entries go into the report and are gone
\* when the step returns; what stays is the state of the transaction.
RunQualityTests ==
    /\ pc = "quality"
    /\ stages' = Append(stages, "quality")
    /\ \E skip \in BOOLEAN :
        IF skip
        THEN UNCHANGED <<txState, faults>>
        ELSE \E ff \in [DOMAIN TestNames -> FaultKinds] :
               /\ TotalCost(ff) <= faults
               /\ FirstChecks(ff)
               /\ Strikes(tableExists, work, txState, ff)
               /\ txState' = RunAllTests(tableExists, work, txState, ff).tx
               /\ faults' = faults - TotalCost(ff)
    /\ result' = "true"
    /\ pc' = "finally"
    /\ UNCHANGED <<check_raised, test_results, wrote, released, acquired, pageErrors, start, script, run, hashSeed, connection, total_count, all_papers, page_num,
                   papers, stats, overall, bi, bj, bstats, failure, exitCode, src,
                   pageRequests, bulkCalls, backup, tableExists, db, work,
                   entries, batches, log, nvars>>

\* a variant of main without the exit(1)
ExitStatusIgnored(res) == 0

\* main: exit(1) unless run_pipeline returned True
ExitStatus(res) == IF res = "true" THEN 0 ELSE 1

\* get_summary: the success rate, a percentage, as numerator and denominator
GetSummary(st) ==
    [papers_fetched |-> st.papers_fetched,
     papers_inserted |-> st.papers_inserted,
     papers_skipped |-> st.papers_skipped,
     errors |-> st.errors,
     success_rate |->
        IF st.papers_fetched > 0
        THEN [num |-> (st.papers_inserted + st.papers_skipped) * 100,
              den |-> IF st.papers_fetched > 1 THEN st.papers_fetched ELSE 1]
        ELSE [num |-> 0, den |-> 1]]

\* a variant of the finally block that never closes
ReleasesNever(conn) == 0

\* the finally block: "if self.connection: close_connection(self.connection)"
Releases(conn) == IF conn = "open" THEN 1 ELSE 0

\* the finally block (close_connection: what was not committed is lost),
\* then main's summary and exit status
Finish ==
    /\ pc = "finally"
    /\ connection' = IF Releases(connection) = 1 THEN "closed" ELSE connection
    /\ released' = released + Releases(connection)
    /\ work' = db
    /\ txState' = "idle"
    /\ exitCode' = ExitStatus(result)
    /\ pc' = "exited"
    /\ log' = Append(log, [papers |-> papers, seed |-> hashSeed, stats |-> stats,
                           result |-> result, failure |-> failure,
                           exit |-> ExitStatus(result), entries |-> entries,
                           batches |-> batches, backup |-> backup.written,
                           before |-> start.rows,
                           summary |-> IF result = "true" THEN <<GetSummary(stats)>> ELSE <<>>,
                           db |-> db])
    /\ UNCHANGED <<check_raised, test_results, wrote, acquired, pageErrors, stages, start, script, run, hashSeed, total_count, all_papers, page_num, papers,
                   stats, overall, bi, bj, bstats, result, failure, src, pageRequests,
                   bulkCalls, backup, tableExists, db, faults, entries, batches, nvars>>

\* the next invocation: a new process against the same store
StartRun ==
    /\ pc = "exited"
    /\ run < MaxRuns
    /\ run' = run + 1
    /\ pc' = "start"
    /\ src' \in RerunSources
    /\ hashSeed' \in Seeds(src')
    /\ faults' = 0
    /\ start' = [exists |-> tableExists, rows |-> db]
    /\ NewProcess
    /\ UNCHANGED <<script, tableExists, db, work, txState, log, nvars>>

\* the process is terminated during the upload (a signal, a power cut): no
\* handler runs, and the server discards the connection's open transaction
Terminate ==
    /\ pc = "upload"
    /\ pc' = "killed"
    /\ work' = db
    /\ txState' = "idle"
    /\ UNCHANGED <<script, run, hashSeed, connection, total_count, all_papers, page_num,
                   papers, stats, overall, bi, bj, bstats, result, failure, exitCode,
                   src, pageRequests, bulkCalls, pageErrors, backup, tableExists, db,
                   faults, entries, batches, stages, start, acquired, released, wrote, check_raised,
                   test_results,
                   log, nvars>>

\* data_quality_tests.main: get_database_connection, "return" without it
ValidatorConnect ==
    /\ script = "data_quality_tests"
    /\ pc = "start"
    /\ \E ok \in BOOLEAN :
        IF ok
        THEN /\ connection' = "open"
             /\ txState' = "active"          \* test_connection's SELECT version()
             /\ acquired' = acquired + 1
             /\ pc' = "tests"
             /\ UNCHANGED <<released, exitCode>>
        ELSE /\ \E tested \in BOOLEAN :
                  /\ acquired' = acquired + (IF tested THEN 1 ELSE 0)
                  /\ released' = released + (IF tested THEN 1 ELSE 0)
             /\ exitCode' = 0
             /\ pc' = "exited"
             /\ UNCHANGED <<connection, txState>>
    /\ UNCHANGED <<script, run, hashSeed, total_count, all_papers, page_num, papers,
                   stats, overall, bi, bj, bstats, result, failure, src, pageRequests,
                   bulkCalls, pageErrors, backup, tableExists, db, work, faults,
                   entries, batches, stages, start, wrote, check_raised, test_results, log, nvars>>

\* data_quality_tests.main, the try block: run_all_tests, then the report
\* (an exception of the report's file is caught and printed)
ValidatorRun ==
    /\ script = "data_quality_tests"
    /\ pc = "tests"
    /\ \E ff \in [DOMAIN TestNames -> FaultKinds] :
        /\ TotalCost(ff) <= faults
        /\ Strikes(tableExists, work, txState, ff)
        /\ test_results' = RunAllTests(tableExists, work, txState, ff).results
        /\ txState' = RunAllTests(tableExists, work, txState, ff).tx
        /\ faults' = faults - TotalCost(ff)
    /\ pc' = "closing"
    /\ UNCHANGED <<script, run, hashSeed, connection, total_count, all_papers, page_num,
                   papers, stats, overall, bi, bj, bstats, result, failure, exitCode,
                   src, pageRequests, bulkCalls, pageErrors, backup, tableExists, db,
                   work, entries, batches, stages, start, acquired, released, wrote, check_raised,
                   log, nvars>>

\* data_quality_tests.main, the finally block: close_connection
ValidatorClose ==
    /\ script = "data_quality_tests"
    /\ pc = "closing"
    /\ connection' = "closed"
    /\ released' = released + 1
    /\ work' = db
    /\ txState' = "idle"
    /\ exitCode' = 0
    /\ pc' = "exited"
    /\ UNCHANGED <<script, run, hashSeed, total_count, all_papers, page_num, papers,
                   stats, overall, bi, bj, bstats, result, failure, src, pageRequests,
                   bulkCalls, pageErrors, backup, tableExists, db, faults, entries,
                   batches, stages, start, acquired, wrote, check_raised, test_results, log, nvars>>

NormIdle == nRaw = EmptyObj /\ nOut = <<>> /\ writers = <<>>

\* a process about to start: which script, against which store and source
InitProcess(scr, at, stores, sources, budget) ==
    /\ script = scr
    /\ run = 1
    /\ pc = at
    /\ src \in sources
    /\ hashSeed \in Seeds(src)
    /\ connection = IF at = "start" THEN "none" ELSE "open"
    /\ papers = <<>>
    /\ stats = ZeroStats
    /\ total_count = -1
    /\ all_papers = <<>>
    /\ page_num = 0
    /\ overall = NewBatchStats(0)
    /\ bi = 0
    /\ bj = 0
    /\ bstats = NewBatchStats(0)
    /\ result = "none"
    /\ failure = "none"
    /\ exitCode = -1
    /\ pageRequests = 0
    /\ bulkCalls = 0
    /\ pageErrors = 0
    /\ backup = NoBackup
    /\ faults = budget
    /\ entries = <<>>
    /\ batches = <<>>
    /\ stages = <<>>
    /\ check_raised = FALSE
    /\ test_results = NoResults
    /\ wrote = <<>>
    /\ released = 0
    /\ acquired = IF at = "start" THEN 0 ELSE 1
    /\ \E st \in stores :
        /\ start = st
        /\ tableExists = st.exists
        /\ db = st.rows
        /\ work = st.rows
    /\ txState = "idle"
    /\ log = <<>>

\* the store an earlier, fault-free run over one page of RawA left
StoreA == InsertSql({}, TransformPaperData(RawA, 0).val, 0).table

\* one invocation of the pipeline, against an empty or a populated store
NoTable == [exists |-> FALSE, rows |-> {}]
EmptyTable == [exists |-> TRUE, rows |-> {}]
Init ==
    /\ InitProcess("pipeline", "start",
                   {NoTable, EmptyTable, [exists |-> TRUE, rows |-> StoreA]},
                   SeqsUpTo(Pages, MaxSrcPages), MaxFaults)
    /\ NormIdle

Next ==
    \/ ConnectDatabase
    \/ FetchCount
    \/ PaginateStep
    \/ FallbackGet
    \/ SaveBackup
    \/ EnsureTableExists
    \/ ProcessRecord
    \/ CommitBatch
    \/ RunQualityTests
    \/ Finish

Spec == Init /\ [][Next]_vars

\* invocations one after the other against the same store, from an empty
\* store, the store answering every statement
InitRerun ==
    /\ InitProcess("pipeline", "start", {NoTable}, RerunSources, 0)
    /\ NormIdle

NextRerun == Next \/ StartRun

SpecRerun == InitRerun /\ [][NextRerun]_vars

----------------------------------------------------------------------------
(* The validator run on its own (python data_quality_tests.py), against a  *)
(* papers table of up to MaxRows rows.                                     *)

\* a row of the table: the five columns given, every other column NULL
QRow(id, doi, title, cites, score) ==
    [k \in Range(Fields) \cup {"created_at", "updated_at"} |->
        CASE k = "id" -> id
          [] k = "doi" -> doi
          [] k = "title" -> title
          [] k = "cited_by_count" -> cites
          [] k = "primary_topic_score" -> score
          [] OTHER -> Null]

\* rows that differ in the key columns
KeyRows ==
    {QRow(JStr("Q1"), Null, JStr("T1"), JInt(0), Null),
     QRow(JStr("Q1"), Null, JStr("T2"), JInt(0), Null),
     QRow(JStr("Q1"), JStr("X1"), JStr("T1"), JInt(0), Null),
     QRow(JStr("Q2"), JStr("X1"), JStr("T1"), JInt(0), Null),
     QRow(JStr("Q2"), Null, Null, JInt(0), Null),
     QRow(Null, Null, JStr("T1"), JInt(0), Null),
     QRow(Null, Null, JStr("T2"), JInt(0), Null)}

\* rows at and around the bounds of the citation check
CitationRows ==
    {QRow(JStr("Q3"), Null, JStr("T1"), c, Null) :
        c \in {Null, JInt(-1), JInt(CitationCeiling), JInt(CitationCeiling + 1)}}

\* rows at and around the bounds of the score check: 0, 1.0 and one
\* ten-thousandth outside either
ScoreRows ==
    {QRow(JStr("Q4"), Null, JStr("T1"), JInt(0), sc) :
        sc \in {JDec(-1), JDec(0), JDec(1 * ScoreScale), JDec(1 * ScoreScale + 1)}}

QualityRows == KeyRows \cup CitationRows \cup ScoreRows

QualityStores ==
    {NoTable} \cup
    {[exists |-> TRUE, rows |-> t] : t \in {x \in SUBSET QualityRows : Cardinality(x) <= MaxRows}}

InitQuality ==
    /\ InitProcess("data_quality_tests", "start", QualityStores, {<<>>}, MaxFaults)
    /\ NormIdle

NextQuality ==
    \/ ValidatorConnect
    \/ ValidatorRun
    \/ ValidatorClose

SpecQuality == InitQuality /\ [][NextQuality]_vars

----------------------------------------------------------------------------
(* One invocation over the pages that matter to the upload (valid, title-  *)
(* less, sharing a DOI, failing to transform, changed since it was         *)
(* stored), which may be terminated during its upload.                     *)

TermPages ==
    { <<RawA, RawB>>, <<RawB, RawNoTitle>>, <<RawDupDoi>>, <<RawNullIds, RawB>>,
      <<RawA3>> }

InitTerm ==
    /\ InitProcess("pipeline", "start",
                   {NoTable, EmptyTable, [exists |-> TRUE, rows |-> StoreA]},
                   SeqsUpTo(TermPages, MaxSrcPages), MaxFaults)
    /\ NormIdle

NextTerm == Next \/ Terminate

SpecTerm == InitTerm /\ [][NextTerm]_vars

----------------------------------------------------------------------------
(* The batch scenario: two full batches and half a batch of records that   *)
(* are new to the store (250 records at batch size 100), some of which     *)
(* raise in the transform; the store answers every statement.              *)

RawNew(k) == JObj([id |-> JStr("N" \o ToString(k)), title |-> JStr("T")])

ScenarioLen == 2 * BatchSize + BatchSize \div 2

\* the records of the scenario, those at the positions in bad raising
ScenarioPapers(bad) ==
    [k \in 1..ScenarioLen |-> IF k \in bad THEN RawNullIds ELSE RawNew(k)]

\* the source returns them as one page
ScenarioSources ==
    {<<ScenarioPapers(bad)>> :
        bad \in {b \in SUBSET (1..ScenarioLen) : Cardinality(b) <= MaxBad}}

InitBatch ==
    /\ InitProcess("pipeline", "start", {NoTable, EmptyTable}, ScenarioSources, 0)
    /\ NormIdle

SpecBatch == InitBatch /\ [][Next]_vars

----------------------------------------------------------------------------
(* The fetchers alone, against sources longer than the page ceiling.       *)

\* n pages of one record each
PlainSource(n) == [k \in 1..n |-> <<RawB>>]

FetchSources ==
    {PlainSource(n) : n \in 0..(PageLimit + MaxExtraPages)} \cup { << <<>> >> }

InitFetch ==
    /\ \E scr \in {"pipeline", "find_ai_papers"} :
        InitProcess(scr, "fetch_count", {EmptyTable}, FetchSources, 0)
    /\ NormIdle

NextFetch ==
    \/ FetchCount
    \/ PaginateStep
    \/ FallbackGet

SpecFetch == InitFetch /\ [][NextFetch]_vars

----------------------------------------------------------------------------
(* The normaliser alone: transform_paper_data applied to one raw record by *)
(* NormRuns processes, each with its own hash seed.                        *)

IdentRaws ==
    {JObj([id |-> a, doi |-> b, ids |-> c, title |-> d]) :
        a \in {Absent, Null, JStr(""), JStr("W1")},
        b \in {Absent, Null, JStr("D1")},
        c \in {Absent, Null, EmptyObj, JObj([openalex |-> Null]), JObj([openalex |-> JStr("A1")])},
        d \in {Absent, Null, JStr("T1")}}

LocationOptions ==
    {Absent, Null, EmptyObj,
     JObj([is_oa |-> JBool(TRUE), source |-> Null]),
     JObj([is_oa |-> Null, source |-> JObj([display_name |-> JStr("J1"), is_oa |-> JBool(TRUE),
                                            is_core |-> Null])])}

TopicOptions ==
    {Absent, Null, EmptyList, JList(<<Null>>), JList(<<EmptyObj>>),
     JList(<<JObj([display_name |-> JStr("Tp1"), subfield |-> Null,
                   domain |-> JObj([display_name |-> JStr("Dm1")])]), Null>>)}

MetricsOptions ==
    {Absent, Null, JObj([is_in_top_1_percent |-> JBool(TRUE), is_in_top_10_percent |-> Null])}

NestedRaws ==
    {JObj([id |-> a, primary_location |-> pl, topics |-> tp, citation_metrics |-> cm]) :
        a \in {Absent, JStr("W1")}, pl \in LocationOptions, tp \in TopicOptions,
        cm \in MetricsOptions}

Inst(i) == JObj([id |-> i])
AuthorSamples ==
    {Null, EmptyObj,
     JObj([country_code |-> JStr("US")]),
     JObj([country_code |-> JStr("FR"), institutions |-> Null]),
     JObj([country_code |-> Null, institutions |-> JList(<<Inst(JStr("A")), Inst(JStr("A")), Null>>)]),
     JObj([institutions |-> JList(<<Inst(JStr("B")), Inst(Null), EmptyObj>>)])}

AuthorRaws ==
    {JObj([id |-> JStr("W1"), authorships |-> au]) :
        au \in {Absent, Null} \cup {JList(x) : x \in SeqsUpTo(AuthorSamples, MaxAuthors)}}

ScalarRaws ==
    {JObj([id |-> JStr("W1"), referenced_works |-> rw, cited_by_count |-> cc,
           is_retracted |-> fl, has_fulltext |-> ff]) :
        rw \in {Absent, Null, EmptyList, JList(<<JStr("R1"), JStr("R2")>>)},
        cc \in {Absent, Null, JInt(5)},
        fl \in {Absent, Null, JBool(TRUE)},
        ff \in {Absent, JBool(FALSE)}}

NormRaws == IdentRaws \cup NestedRaws \cup AuthorRaws \cup ScalarRaws

InitNorm ==
    /\ InitProcess("pipeline", "normalise", {EmptyTable}, {<<>>}, 0)
    /\ nRaw \in NormRaws
    /\ nOut = <<>>
    /\ writers = <<>>

\* one more process normalises nRaw
Normalise ==
    /\ pc = "normalise"
    /\ Len(nOut) < NormRuns
    /\ \E seed \in 0..MaxSeed :
        nOut' = Append(nOut, TransformPaperData(nRaw, seed))
    /\ UNCHANGED <<nRaw, writers, pvars>>

NextNorm == Normalise

SpecNorm == InitNorm /\ [][NextNorm]_vars

----------------------------------------------------------------------------
(* Properties of the normaliser (checked under SpecNorm).                  *)

CountFields ==
    {"authors_count", "referenced_works_count", "countries_distinct_count",
     "institutions_distinct_count"}

\* C5: safe-navigation totality.  For every raw record with any subset of
\* its nested paths absent or null, transform_paper_data returns without
\* raising, the id it returns is a non-empty string, and the four counts
\* are non-negative integers.
C5_SafeNavigationTotality ==
    \A k \in DOMAIN nOut :
        /\ ~nOut[k].raised
        /\ nOut[k].val.id.t = "str"
        /\ nOut[k].val.id.v # ""
        /\ \A c \in CountFields : nOut[k].val[c].t = "int" /\ nOut[k].val[c].v >= 0

\* raw.ids.openalex, None when ids is not a dict
RawOpenalex(raw) ==
    IF Get(raw, "ids").t = "obj" THEN Get(Get(raw, "ids"), "openalex") ELSE Null

\* C6: identifier fallback order.  Whenever the normaliser returns, the id
\* is raw.id when that is present, else raw.doi, else raw.ids.openalex, else
\* a non-empty string that is the same in every process that normalises the
\* same raw record.
C6_IdentifierFallbackOrder ==
    \A k \in DOMAIN nOut :
        ~nOut[k].raised =>
            LET id == nOut[k].val.id IN
            IF Truthy(Get(nRaw, "id")) THEN id = Get(nRaw, "id")
            ELSE IF Truthy(Get(nRaw, "doi")) THEN id = Get(nRaw, "doi")
            ELSE IF Truthy(RawOpenalex(nRaw)) THEN id = RawOpenalex(nRaw)
            ELSE /\ id.t = "str"
                 /\ id.v # ""
                 /\ \A j \in DOMAIN nOut : ~nOut[j].raised => nOut[j].val.id = id

----------------------------------------------------------------------------
(* Properties of the fetchers (checked under SpecFetch).                   *)

\* the fetch has handed its records to the caller without a failure
FetchSucceeded == pc \in {"backup", "finally", "returned"} /\ failure = "none"

\* C8: page-count ceiling.  The loop never asks the paginator for a 51st
\* page and never consumes more than 50, and a fetch that succeeded without
\* the fallback returns exactly the records of the pages it consumed.
C8_PageCeiling ==
    /\ pageRequests <= PageLimit
    /\ page_num <= PageLimit
    /\ (FetchSucceeded /\ bulkCalls = 0) => papers = Flatten(SubSeq(src, 1, page_num))

\* a source longer than the ceiling, fetched up to the ceiling
C8_CeilingReached ==
    /\ Len(src) > PageLimit
    /\ page_num = PageLimit
    /\ pageRequests = PageLimit
    /\ FetchSucceeded
    /\ bulkCalls = 0
    /\ Len(papers) = PageLimit

\* C9: zero matching records.  When count() answered zero and no request
\* raised, the fetcher never enters the fallback, issues no bulk retrieval,
\* reports no failure and returns the empty sequence; the pipeline then
\* ends with success without the backup, schema, upload or validation steps.
C9_ZeroMatchingRecords ==
    (total_count = 0 /\ pageErrors = 0) =>
        /\ pc # "fallback"
        /\ bulkCalls = 0
        /\ failure = "none"
        /\ pc \in {"finally", "returned"} => papers = <<>>
        /\ script = "pipeline" =>
              /\ pc = "finally"
              /\ result = "true"
              /\ stages = <<"fetch">>

----------------------------------------------------------------------------
(* Properties of one invocation of the pipeline (Spec and SpecTerm).       *)

\* a record of the batch that is new to the store, that the store would
\* accept, and whose own statements met no fault
NewAndValid(e) == ~e.t.raised /\ ~e.existed /\ e.writable /\ ~e.faulted

\* the commit of the batch described by entries has returned
BatchCommitted ==
    /\ entries # <<>>
    /\ bj = 0
    /\ batches # <<>>
    /\ batches[Len(batches)] # "commit_failed"

\* C2: per-record error isolation.  After a batch's commit returned, every
\* record of the batch was processed, each failure was counted as one error,
\* and every record that followed a failed one and is new and valid was
\* inserted and is in the committed store.
C2_PerRecordIsolation ==
    BatchCommitted =>
        \A k \in DOMAIN entries :
            (NewAndValid(entries[k]) /\ \E j \in 1..(k - 1) : entries[j].outcome = "error") =>
                /\ entries[k].outcome = "inserted"
                /\ entries[k].t.val.id \in Ids(db)

\* the number of batches upload_papers_to_database cuts n records into
NumBatches(n) == (n + BatchSize - 1) \div BatchSize

\* C3: batch-commit failure isolation.  When the commit of a batch failed,
\* the rows that batch inserted are not in the committed store, and every
\* batch of the run was still processed: the run ends with one commit
\* attempted per batch.
C3_CommitFailureIsolation ==
    (pc = "exited" /\ \E k \in DOMAIN batches : batches[k] = "commit_failed") =>
        /\ \A j \in DOMAIN entries :
              (entries[j].outcome = "inserted" /\ ~entries[j].existed) =>
                  entries[j].t.val.id \notin Ids(db)
        /\ Len(batches) = NumBatches(Len(papers))

\* C7: fetch fallback policy.  A bulk retrieval is issued exactly when a
\* page request raised, and at most once; the loop is not resumed after it;
\* its result alone becomes the fetched set; and when it raises as well the
\* run fails at the fetch, before the backup, schema and upload steps, with
\* the store as the run found it.
C7_FetchFallback ==
    /\ bulkCalls <= 1
    /\ pageErrors <= 1
    /\ bulkCalls = 1 => (pageErrors = 1 /\ pc # "paginate" /\ pc # "fallback")
    /\ (pageErrors = 1 /\ pc # "fallback") => bulkCalls = 1
    /\ (bulkCalls = 1 /\ failure # "fetch") => papers = Prefix(Flatten(src), BulkSize)
    /\ (bulkCalls = 1 /\ failure = "fetch") =>
          /\ result = "false"
          /\ stages = <<"connect", "fetch">>
          /\ ~backup.written
          /\ entries = <<>>
          /\ batches = <<>>
          /\ tableExists = start.exists
          /\ db = start.rows
          /\ work = start.rows

\* pages were accumulated, a later request raised, and the bulk retrieval
\* returned other records than the pages held
C7_PagesDiscarded ==
    /\ pageErrors = 1
    /\ bulkCalls = 1
    /\ page_num >= 1
    /\ failure = "none"
    /\ pc = "backup"
    /\ papers # Flatten(SubSeq(src, 1, page_num))
    /\ papers = Prefix(Flatten(src), BulkSize)

Unrecoverable == {"connect", "fetch", "schema", "upload"}

----------------------------------------------------------------------------
(* Properties of repeated invocations (checked under SpecRerun).           *)

\* the identifiers the process with this hash seed gives the records of pp
RunIds(pp, seed) == {TransformPaperData(pp[k], seed).val.id : k \in DOMAIN pp}

ImmutableFields == Range(Fields) \ ConflictFields

\* C1: idempotence.  From an empty store, a run over N records with
\* distinct identifiers reports inserted = N and skipped = 0; the next run
\* over the same input reports inserted = 0 and skipped = N, and every
\* immutable field of every row is as the first run left it.
C1_Idempotence ==
    \A k \in 1..(Len(log) - 1) :
        LET a == log[k]
            b == log[k + 1]
            n == Len(a.papers)
        IN  ( /\ a.before = {}
              /\ a.papers # <<>>
              /\ b.papers = a.papers
              /\ a.result = "true"
              /\ b.result = "true"
              /\ Cardinality(RunIds(a.papers, a.seed)) = n )
            => /\ a.stats.papers_inserted = n
               /\ a.stats.papers_skipped = 0
               /\ b.stats.papers_inserted = 0
               /\ b.stats.papers_skipped = n
               /\ \A r \in a.db : \E q \in b.db :
                     q.id = r.id /\ \A f \in ImmutableFields : q[f] = r[f]

\* C4: conflict policy on re-upsert.  When a record whose identifier is
\* already stored has been processed, the stored cited_by_count is the
\* incoming one and the stored doi is the one that was stored before.
C4_ConflictPolicy ==
    (pc = "upload" /\ bj > 0) =>
        LET e == entries[Len(entries)] IN
        \A old \in e.found :
            \E r \in work :
                /\ r.id = old.id
                /\ r.cited_by_count = e.t.val.cited_by_count
                /\ r.doi = old.doi

----------------------------------------------------------------------------
(* The store connection (checked under SpecTerm).                          *)

\* C11: connection lifecycle.  A run obtains at most one store connection,
\* never closes more than it obtained, has closed what it obtained when the
\* process exits, whatever the exit path, and issues no statement once the
\* connection is closed: the handle is open exactly between the two events.
C11_ConnectionLifecycle ==
    /\ acquired <= 1
    /\ released <= acquired
    /\ connection = "open" <=> (acquired = 1 /\ released = 0)
    /\ connection = "closed" <=> (acquired = 1 /\ released = 1 /\ failure # "connect")
    /\ released = 1 => pc \in {"finally", "exited"}
    /\ pc = "exited" => (released = acquired /\ connection # "open" /\ txState = "idle")

\* a run that failed in the upload has closed its connection
C11_ClosedAfterUploadFailure ==
    /\ pc = "exited"
    /\ failure = "upload"
    /\ acquired = 1
    /\ released = 1
    /\ connection = "closed"

----------------------------------------------------------------------------
(* The batch scenario (checked under SpecBatch).                           *)

\* the positions of pp whose record raises in the transform
RaisesOnTransform(pp) ==
    {k \in DOMAIN pp : TransformPaperData(pp[k], hashSeed).raised}

\* the upload of this run has returned True
UploadReturned == pc \in {"quality", "finally", "exited"} /\ "upload" \in Range(stages)

\* C12: batch isolation end to end.  When new records are uploaded and the
\* transform of some of them raises, the run reports every record in the
\* total, one error per raising record and every other record inserted,
\* every batch is committed, and the store holds exactly the other records.
C12_TransformFailureCost ==
    (UploadReturned /\ failure = "none") =>
        LET n == Len(papers)
            bad == RaisesOnTransform(papers)
        IN  /\ overall.total = n
            /\ stats.papers_inserted = n - Cardinality(bad)
            /\ stats.errors = Cardinality(bad)
            /\ stats.papers_skipped = 0
            /\ Len(batches) = NumBatches(n)
            /\ \A k \in DOMAIN batches : batches[k] = "committed"
            /\ Ids(db) = {TransformPaperData(papers[k], hashSeed).val.id :
                             k \in DOMAIN papers \ bad}

\* the scenario itself: one raising record, in the second of three batches
C12_OneRaisesInSecondBatch ==
    /\ pc = "exited"
    /\ Len(papers) = ScenarioLen
    /\ Cardinality(RaisesOnTransform(papers)) = 1
    /\ RaisesOnTransform(papers) \subseteq (BatchSize + 1)..(2 * BatchSize)
    /\ overall.total = ScenarioLen
    /\ stats.papers_inserted = ScenarioLen - 1
    /\ stats.errors = 1
    /\ batches = <<"committed", "committed", "committed">>

----------------------------------------------------------------------------
(* The counters and the order of the upload (checked under SpecTerm; the   *)
(* run summary under Spec).                                                *)

Outcomes == {"inserted", "skipped", "error"}

Settled(st) == st.inserted + st.skipped + st.errors

\* the records of the current batch that had outcome o
WithOutcome(o) == {k \in DOMAIN entries : entries[k].outcome = o}

\* C13: outcome partition.  Every record handed to a batch has exactly one
\* outcome, so the batch counters add up to the records processed so far
\* (to the batch's total when the batch ends), the run counters to the
\* records of the batches done, and at the end of a run that completed its
\* upload inserted + skipped + errors = total and the summary's success rate
\* is (inserted + skipped) / total, as a percentage.
C13_OutcomePartition ==
    /\ pc = "upload" =>
          /\ bstats.total = Len(BatchAt(bi))
          /\ Settled(bstats) = bj
          /\ bstats.updated = 0
          /\ Settled(overall) = bi
          /\ bj > 0 =>
                /\ Len(entries) = bj
                /\ \A k \in DOMAIN entries : entries[k].outcome \in Outcomes
                /\ bstats.inserted = Cardinality(WithOutcome("inserted"))
                /\ bstats.skipped = Cardinality(WithOutcome("skipped"))
                /\ bstats.errors = Cardinality(WithOutcome("error"))
    /\ (pc = "exited" /\ result = "true" /\ papers # <<>>) =>
          LET total == Len(papers)
              sm == log[Len(log)].summary[1]
          IN  /\ overall.total = total
              /\ stats.papers_fetched = total
              /\ stats.papers_inserted + stats.papers_skipped + stats.errors = total
              /\ Settled(overall) = total
              /\ sm.papers_inserted = stats.papers_inserted
              /\ sm.papers_skipped = stats.papers_skipped
              /\ sm.errors = stats.errors
              /\ sm.success_rate.num = (stats.papers_inserted + stats.papers_skipped) * 100
              /\ sm.success_rate.den = total

\* a completed run with records of all three outcomes
C13_AllThreeOutcomes ==
    /\ pc = "exited"
    /\ result = "true"
    /\ stats.papers_inserted > 0
    /\ stats.papers_skipped > 0
    /\ stats.errors > 0

\* C14: run summary on partial failure.  In every run that reached the
\* upload, the run's counters are those accumulated over the batches that
\* were processed, and the summary that reports them is printed, also when a
\* batch commit failed part-way.
C14_SummaryOnPartialFailure ==
    (pc = "exited" /\ "upload" \in Range(stages)) =>
        /\ stats.papers_inserted = overall.inserted
        /\ stats.papers_skipped = overall.skipped
        /\ stats.errors = overall.errors
        /\ Settled(overall) > 0 =>
              stats.papers_inserted + stats.papers_skipped + stats.errors > 0
        /\ log[Len(log)].summary # <<>>

\* the commits of this run that returned
CommitsReturned == Cardinality({k \in DOMAIN batches : batches[k] # "commit_failed"})

\* the records of the batches whose commit returned: a prefix of self.papers
CommittedPrefix ==
    1..(IF BatchSize * CommitsReturned < Len(papers)
        THEN BatchSize * CommitsReturned ELSE Len(papers))

\* C15: ordering.  Records are processed in the order the fetcher returned
\* them, batch by batch: the j-th record processed in the batch that starts
\* at bi is record bi + j of self.papers; a batch starts only when a commit
\* was attempted for every batch before it; and the rows the run has
\* committed come from a prefix of the batches.
C15_Ordering ==
    /\ pc = "upload" =>
          /\ bi = BatchSize * Len(batches)
          /\ bi < Len(papers)
          /\ \A k \in DOMAIN batches : batches[k] # "commit_failed"
          /\ bj > 0 =>
                \A j \in 1..bj :
                    entries[j].t = TransformPaperData(papers[bi + j], hashSeed)
    /\ \A k \in DOMAIN batches :
          batches[k] = "commit_failed" => k = Len(batches)
    /\ \A r \in db \ start.rows :
          \E k \in CommittedPrefix :
              /\ ~TransformPaperData(papers[k], hashSeed).raised
              /\ TransformPaperData(papers[k], hashSeed).val.id = r.id

\* the second batch is in progress and the first one's rows are committed
C15_SecondBatchAfterFirstCommit ==
    /\ pc = "upload"
    /\ bi = BatchSize
    /\ bj >= 1
    /\ batches = <<"committed">>
    /\ db # start.rows
    /\ papers[1] # papers[bi + 1]

----------------------------------------------------------------------------
(* Termination during the upload (checked under SpecTerm).                 *)

\* the batches of this run whose commit returned before the termination
CommitCompleted == {k \in DOMAIN batches : batches[k] # "commit_failed"}

\* C16: at most once per batch under termination.  When the process was
\* terminated during the upload, every record that a batch whose commit had
\* completed reported as inserted is in the store, and every row the store
\* has gained since the run began was written by such a batch.
C16_AtMostOncePerBatch ==
    pc = "killed" =>
        /\ \A k \in CommitCompleted : wrote[k] \subseteq Ids(db)
        /\ \A r \in db \ start.rows : \E k \in CommitCompleted : r.id \in wrote[k]

----------------------------------------------------------------------------
(* The validator's checks (checked under SpecQuality).                     *)

\* run_all_tests has returned in this run
TestsRan == test_results # NoResults

\* C17: validator check independence.  Once run_all_tests has returned, the
\* report has exactly the four entries, each with status PASS, FAIL or
\* ERROR, and, the table being there, an entry is ERROR only when that
\* check itself could not execute: no check is ERROR merely because an
\* earlier check had failed.
C17_CheckIndependence ==
    TestsRan =>
        /\ DOMAIN test_results = Range(TestNames)
        /\ \A n \in DOMAIN test_results : test_results[n].status \in {"PASS", "FAIL", "ERROR"}
        /\ tableExists =>
             \A n \in DOMAIN test_results :
                test_results[n].status = "ERROR" =>
                    test_results[n].error # "InFailedSqlTransaction"

\* the entry a check recorded, once it ran to its end
Ran(n) == TestsRan /\ test_results[n].status # "ERROR"

\* C18: score-range check.  When the check ran, it is PASS exactly when
\* every stored score that is not null lies in [0, 1], both bounds
\* included; rows without a score never make it FAIL.
C18_ScoreRange ==
    Ran("score_range_validation") =>
        (test_results["score_range_validation"].status = "PASS"
            <=> \A r \in db :
                  \/ r.primary_topic_score = Null
                  \/ /\ r.primary_topic_score.v >= 0
                     /\ r.primary_topic_score.v <= 1 * ScoreScale)

\* the check passed a table holding a score of exactly 1.0 and a row without
\* a score
C18_OnePointZeroPasses ==
    /\ Ran("score_range_validation")
    /\ test_results["score_range_validation"].status = "PASS"
    /\ \E r \in db : r.primary_topic_score = JDec(1 * ScoreScale)
    /\ \E r \in db : r.primary_topic_score = Null

\* the check failed a table whose only score is 1.0001
C18_JustAboveOneFails ==
    /\ Ran("score_range_validation")
    /\ test_results["score_range_validation"].status = "FAIL"
    /\ {r.primary_topic_score : r \in db} \ {Null} = {JDec(1 * ScoreScale + 1)}

\* C19: citation-count check.  When the check ran, it is PASS exactly when
\* no stored citation count is below 0 and none is above 100000; a null
\* count, and the minimum, maximum and mean, have no part in the status.
C19_CitationCount ==
    Ran("citation_count_validation") =>
        (test_results["citation_count_validation"].status = "PASS"
            <=> /\ Cardinality({r \in db : r.cited_by_count # Null /\ r.cited_by_count.v < 0}) = 0
                /\ Cardinality({r \in db : r.cited_by_count # Null
                                           /\ r.cited_by_count.v > CitationCeiling}) = 0)

\* the check passed a table holding a count of exactly 100000 and a null count
C19_CeilingAndNullPass ==
    /\ Ran("citation_count_validation")
    /\ test_results["citation_count_validation"].status = "PASS"
    /\ \E r \in db : r.cited_by_count = JInt(CitationCeiling)
    /\ \E r \in db : r.cited_by_count = Null

\* the check failed a table whose only count other than 0 is -1
C19_MinusOneFails ==
    /\ Ran("citation_count_validation")
    /\ test_results["citation_count_validation"].status = "FAIL"
    /\ {r.cited_by_count : r \in db} \ {JInt(0)} = {JInt(-1)}

C20_SharedDoiFails ==
    /\ Ran("duplicate_detection")
    /\ test_results["duplicate_detection"].status = "FAIL"
    /\ \E r, q \in db : r # q /\ r.doi # Null /\ r.doi = q.doi /\ r.id # q.id

\* C21: required-field completeness check.  When the check ran, it is PASS
\* exactly when no stored row lacks its identifier or its title, and its
\* missing_any_required metric is the number of rows lacking either.
C21_RequiredFields ==
    Ran("missing_required_fields") =>
        /\ test_results["missing_required_fields"].status = "PASS"
              <=> ~ \E r \in db : r.id = Null \/ r.title = Null
        /\ test_results["missing_required_fields"].missing_any_required
              = Cardinality({r \in db : r.id = Null} \cup {r \in db : r.title = Null})

\* the check failed a table with one row that has its identifier but no
\* title, and counted that row
C21_TitlelessRowFails ==
    /\ Ran("missing_required_fields")
    /\ test_results["missing_required_fields"].status = "FAIL"
    /\ test_results["missing_required_fields"].missing_any_required = 1
    /\ \E r \in db : r.id # Null /\ r.title = Null
    /\ ~ \E r \in db : r.id = Null

----------------------------------------------------------------------------
(* The counts and flags of the normaliser (checked under SpecNorm).        *)

\* the entries of a list-valued field of o that are objects; none when the
\* field is absent, null or not a list
ObjectsOf(o, k) ==
    IF Get(o, k).t # "list" THEN {}
    ELSE {x \in Range(Get(o, k).v) : x.t = "obj"}

\* the country codes the raw record's authorships name
RawCountryCodes == {Get(a, "country_code") : a \in ObjectsOf(nRaw, "authorships")} \ {Null}

\* the institution ids the raw record's authorships name
RawInstitutionIds ==
    UNION {{Get(i, "id") : i \in ObjectsOf(a, "institutions")} :
              a \in ObjectsOf(nRaw, "authorships")} \ {Null}

\* C22: distinct-count correctness.  In every normalised record
\* countries_distinct_count is the number of distinct non-null country codes
\* of the authorships and institutions_distinct_count the number of distinct
\* non-null institution ids of their institutions; what is null or absent
\* adds nothing, and neither count is ever null.
C22_DistinctCounts ==
    \A k \in DOMAIN nOut :
        ~nOut[k].raised =>
            /\ nOut[k].val.countries_distinct_count = JInt(Cardinality(RawCountryCodes))
            /\ nOut[k].val.institutions_distinct_count = JInt(Cardinality(RawInstitutionIds))

\* a record of three authorships was normalised that names two countries
\* and lists institution A twice beside a null entry
C22_TwoCountriesOneInstitution ==
    /\ nOut # <<>>
    /\ ~nOut[1].raised
    /\ nOut[1].val.authors_count = JInt(3)
    /\ nOut[1].val.countries_distinct_count = JInt(2)
    /\ nOut[1].val.institutions_distinct_count = JInt(1)
    /\ \E a \in ObjectsOf(nRaw, "authorships") :
          Get(a, "institutions") = JList(<<Inst(JStr("A")), Inst(JStr("A")), Null>>)

BooleanFlags ==
    {"is_retracted", "is_paratext", "has_fulltext", "is_in_top_1_percent",
     "is_in_top_10_percent", "is_open_access", "journal_is_oa",
     "journal_is_indexed_scopus", "journal_is_core"}

\* the value under key k of o; Absent when o is no object or lacks the key
At(o, k) == IF o.t = "obj" /\ k \in DOMAIN o.v THEN o.v[k] ELSE Absent

\* what the raw record gives for a flag of the normalised record
RawFlag(raw, f) ==
    CASE f = "is_open_access" -> At(At(raw, "primary_location"), "is_oa")
      [] f = "journal_is_oa" -> At(At(At(raw, "primary_location"), "source"), "is_oa")
      [] f = "journal_is_indexed_scopus" ->
            At(At(At(raw, "primary_location"), "source"), "is_indexed_in_scopus")
      [] f = "journal_is_core" -> At(At(At(raw, "primary_location"), "source"), "is_core")
      [] f \in {"is_in_top_1_percent", "is_in_top_10_percent"} ->
            At(At(raw, "citation_metrics"), f)
      [] OTHER -> At(raw, f)

\* C23: boolean flag defaults.  In every normalised record each of the nine
\* flags is a boolean, never null, and it is false when the raw record omits
\* the flag or the object that would hold it.
C23_BooleanFlagDefaults ==
    \A k \in DOMAIN nOut :
        ~nOut[k].raised =>
            \A f \in BooleanFlags :
                /\ nOut[k].val[f].t = "bool"
                /\ RawFlag(nRaw, f) = Absent => nOut[k].val[f] = JBool(FALSE)

----------------------------------------------------------------------------
(* The write on a stored identifier (checked under SpecTerm).              *)

\* the columns the on-conflict write may change: title, display name, the
\* temporal fields, the citation-derived counts and flags, the modification
\* timestamp
MutableOnConflict ==
    {"title", "display_name", "publication_year", "publication_date", "created_date",
     "updated_date", "cited_by_count", "referenced_works_count", "authors_count",
     "countries_distinct_count", "institutions_distinct_count",
     "citation_normalized_percentile", "is_in_top_1_percent", "is_in_top_10_percent",
     "updated_at"}

\* the columns it must leave alone: doi, the identifier, language and type,
\* the open-access fields, the journal metadata, the topic classification
KeptOnConflict ==
    {"id", "doi", "language", "paper_type", "type_crossref", "is_open_access",
     "oa_status", "oa_url", "journal_name", "journal_issn", "journal_is_oa",
     "journal_is_indexed_scopus", "journal_is_core", "journal_host_organization",
     "primary_topic_name", "primary_topic_score", "primary_subfield_name",
     "primary_field_name", "primary_domain_name"}

\* the record processed last went to insert_paper, the statement was
\* accepted, and its identifier was in the table
WroteOnStoredId ==
    /\ pc = "upload"
    /\ bj > 0
    /\ entries[Len(entries)].outcome = "inserted"
    /\ entries[Len(entries)].found # {}

\* C24: frame of the on-conflict write.  When insert_paper has hit a stored
\* identifier, the stored row differs from what it was only in title,
\* display name, temporal fields, citation-derived counts and flags and the
\* modification timestamp; doi, identifier, language and type, open-access
\* fields, journal metadata and topic classification are what they were.
C24_OnConflictFrame ==
    WroteOnStoredId =>
        \A old \in entries[Len(entries)].found :
            \E r \in work :
                /\ r.id = old.id
                /\ \A f \in KeptOnConflict : r[f] = old[f]
                /\ \A f \in DOMAIN old : r[f] # old[f] => f \in MutableOnConflict

\* insert_paper has hit a stored identifier with a record that differs from
\* the stored row in doi, language, journal and topic, and the title and the
\* modification timestamp of the row have changed
C24_ChangedRecordOnStoredId ==
    /\ WroteOnStoredId
    /\ \E old \in entries[Len(entries)].found :
          LET rec == entries[Len(entries)].t.val IN
          /\ rec.doi # old.doi
          /\ rec.language # old.language
          /\ rec.journal_name # old.journal_name
          /\ rec.primary_topic_name # old.primary_topic_name
          /\ \E r \in work : /\ r.id = old.id
                             /\ r.title = rec.title
                             /\ r.title # old.title
                             /\ r.updated_at # old.updated_at

----------------------------------------------------------------------------
(* The recovery backup (checked under SpecTerm).                           *)

\* the position of stage st in the run, 0 when the run has not entered it
StageAt(st) ==
    IF st \in Range(stages) THEN CHOOSE i \in DOMAIN stages : stages[i] = st ELSE 0

\* the run has touched the store: the schema step, or a record processed
TouchedStore ==
    \/ "schema" \in Range(stages)
    \/ "upload" \in Range(stages)
    \/ wrote # <<>>
    \/ work # start.rows
    \/ db # start.rows

\* the backup is written, was written before the schema step and the upload,
\* and holds the records given
BackupFirst(recs) ==
    /\ backup.written
    /\ backup.papers = recs
    /\ StageAt("backup") > 0
    /\ \A st \in {"schema", "upload"} :
          StageAt(st) > 0 => StageAt("backup") < StageAt(st)

\* the records of the run as transform_paper_data returns them
NormalizedPapers == [k \in DOMAIN papers |-> TransformPaperData(papers[k], hashSeed)]

----------------------------------------------------------------------------
(* Stored identifiers and the existence check (checked under SpecTerm).    *)

\* the record processed last, when the batch loop has processed one
LastEntry == entries[Len(entries)]
Processed == pc = "upload" /\ bj > 0

\* C27: with one writer and existence checks that succeed, a run modifies
\* no row that was in the store.  A record whose check returned and whose
\* identifier is stored is counted as skipped and the table is as it was, so
\* no accepted write meets a stored identifier; while no check of the run has
\* raised, every row the store held at the start is in it, field for field.
C27_StoredRowsUntouched ==
    /\ \A k \in DOMAIN entries :
          (entries[k].check = "returned" /\ entries[k].found # {}) =>
              entries[k].outcome = "skipped"
    /\ (Processed /\ LastEntry.check = "returned" /\ LastEntry.found # {}) =>
          LastEntry.found \subseteq work
    /\ ~check_raised =>
          /\ \A k \in DOMAIN entries :
                entries[k].outcome = "inserted" => entries[k].found = {}
          /\ start.exists => (start.rows \subseteq work /\ start.rows \subseteq db)

\* the upload has ended without a raised check; a record whose title and
\* citation count differ from those of the stored row of its identifier was
\* skipped, and the row is in the store as it was
C27_ChangedRecordSkipped ==
    /\ pc = "quality"
    /\ ~check_raised
    /\ \E k \in DOMAIN entries :
          /\ entries[k].outcome = "skipped"
          /\ \E old \in entries[k].found :
                /\ old \in start.rows
                /\ entries[k].t.val.title # old.title
                /\ entries[k].t.val.cited_by_count # old.cited_by_count
                /\ old \in db

\* the rows of the working table under the identifier of the last record
RowsOfLast == {r \in work : r.id = LastEntry.t.val.id}

C28_RaisedCheckThenError ==
    /\ Processed
    /\ LastEntry.check = "raised"
    /\ LastEntry.outcome = "error"
    /\ LastEntry.found = {}
    /\ LastEntry.writable

----------------------------------------------------------------------------
(* The result of an error-free run (checked under SpecTerm).               *)

\* the upload has returned True, no record was an error and no existence
\* check raised
ErrorFreeUpload ==
    /\ pc = "quality"
    /\ stats.errors = 0
    /\ ~check_raised

\* the identifiers the store did not hold at the start of the run
NewIds == RunIds(papers, hashSeed) \ Ids(start.rows)

\* C29: the result of an error-free run as a set.  From a store with
\* identifier set S the run ends with S united with the identifiers of the
\* input, reports inserted = the number of distinct input identifiers not in
\* S and skipped = the number of records less inserted; a second occurrence
\* of an identifier in the input is a skip.
C29_ErrorFreeResult ==
    ErrorFreeUpload =>
        /\ Ids(db) = Ids(start.rows) \cup RunIds(papers, hashSeed)
        /\ stats.papers_inserted = Cardinality(NewIds)
        /\ stats.papers_skipped = Len(papers) - stats.papers_inserted
        /\ stats.papers_fetched = Len(papers)

\* an error-free run on an empty store whose input holds an identifier twice:
\* one insert for it, the second occurrence skipped
C29_SecondOccurrenceSkipped ==
    /\ ErrorFreeUpload
    /\ start.rows = {}
    /\ \E i, j \in DOMAIN papers :
          /\ i < j
          /\ TransformPaperData(papers[i], hashSeed).val.id
                = TransformPaperData(papers[j], hashSeed).val.id
    /\ stats.papers_skipped >= 1
    /\ stats.papers_inserted = Cardinality(Ids(db))

----------------------------------------------------------------------------
(* The store under the created schema (checked under SpecRerun: runs one   *)
(* after the other on a table that ensure_table_exists created).           *)

\* id and title are never null, ids are unique, non-null dois are unique
SchemaHolds(table) ==
    /\ \A r \in table : r.id # Null /\ r.title # Null
    /\ \A r1, r2 \in table :
          (r1.id = r2.id \/ (r1.doi # Null /\ r1.doi = r2.doi)) => r1 = r2

\* what the required-field and the duplicate check compute from the table
ChecksPass(table) ==
    /\ MissingRequiredFields(table).status = "PASS"
    /\ DuplicateDetection(table).status = "PASS"

\* the record processed last has a null title, or a doi that the table
\* holds under another identifier
LastUnstorable ==
    /\ Processed
    /\ ~LastEntry.t.raised
    /\ LET rec == LastEntry.t.val IN
       \/ rec.title = Null
       \/ rec.doi # Null /\ \E r \in work : r.doi = rec.doi /\ r.id # rec.id

\* C30 as stated: store invariant under the created schema.  In every state
\* the committed and the working table satisfy the schema and the
\* required-field and duplicate checks compute PASS on them; a record with a
\* null title or with a doi stored under another identifier is counted as an
\* error and is not stored.
C30_StoreInvariantAllErrors ==
    /\ SchemaHolds(db) /\ SchemaHolds(work)
    /\ ChecksPass(db) /\ ChecksPass(work)
    /\ LastUnstorable => (LastEntry.outcome = "error" /\ RowsOfLast = LastEntry.found)

\* C30, amended: store invariant under the created schema.  In every state
\* the committed and the working table satisfy the schema and the
\* required-field and duplicate checks compute PASS on them; a record with a
\* null title or with a doi stored under another identifier adds no row: it
\* is counted as an error when its identifier is not in the store, and as
\* skipped, the stored row left as it was, when its identifier is in the
\* store and the existence check returned.
C30_StoreInvariant ==
    /\ SchemaHolds(db) /\ SchemaHolds(work)
    /\ ChecksPass(db) /\ ChecksPass(work)
    /\ LastUnstorable =>
          /\ LastEntry.found = {} =>
                (LastEntry.outcome = "error" /\ RowsOfLast = {})
          /\ (LastEntry.found # {} /\ LastEntry.check = "returned") =>
                (LastEntry.outcome = "skipped" /\ RowsOfLast = LastEntry.found)

\* in a second run on a store that holds W1 with doi D1, the record W4 with
\* doi D1 has been counted as an error and the store holds no row W4
C30_DoiOfAnotherIdRejected ==
    /\ log # <<>>
    /\ LastUnstorable
    /\ LastEntry.t.val.title # Null
    /\ LastEntry.found = {}
    /\ LastEntry.check = "returned"
    /\ LastEntry.outcome = "error"
    /\ db # {}
    /\ \A r \in work : r.id # LastEntry.t.val.id

----------------------------------------------------------------------------
(* Two pipelines at once: two processes, each in upload_papers_to_database *)
(* with one batch, each on its own connection to the same store            *)
(* (PostgreSQL, READ COMMITTED).  A statement sees the committed rows and  *)
(* the rows its own transaction wrote; an INSERT that meets a row another  *)
(* open transaction wrote waits until that transaction has ended.          *)

Writers == {1, 2}
Other(w) == 3 - w

\* the batch of each process: both hold the record W1, fetched at two times
WriterInputs ==
    [Writers -> {<<RawA>>, <<RawB, RawA>>, <<RawA3>>, <<RawA3, RawDupDoi>>}]

\* the table as writer w's statements see it
View(w) ==
    {r \in db : r.id \notin Ids(writers[w].own)} \cup writers[w].own

\* a variant of the store in which no statement waits for another transaction
BlockedNever(w, rec) == FALSE

\* the INSERT of rec by w waits: the other transaction is open and has
\* written a row with this id or this doi
Blocked(w, rec) ==
    \E r \in writers[Other(w)].own :
        r.id = rec.id \/ (rec.doi # Null /\ r.doi = rec.doi)

\* the record writer w is at, transformed
WriterRecord(w) == TransformPaperData(writers[w].papers[writers[w].k], 0)

\* the loop of process_papers_batch moves to the next record, or to commit
Advance(wr, outcome) ==
    [wr EXCEPT !.stats = Bump(@, outcome),
               !.k = @ + 1,
               !.pc = IF wr.k = Len(wr.papers) THEN "commit" ELSE "check"]

\* transform_paper_data and check_paper_exists for the record at hand
WriterCheck(w) ==
    LET wr == writers[w]
        t == WriterRecord(w)
    IN
    /\ wr.pc = "check"
    /\ writers' =
         [writers EXCEPT ![w] =
            IF t.raised THEN Advance(wr, "error")
            ELSE IF wr.tx # "failed" /\ SelectExists(View(w), t.val.id)
            THEN Advance([wr EXCEPT !.tx = "active"], "skipped")
            ELSE [wr EXCEPT !.pc = "insert",
                            !.tx = IF @ = "failed" THEN @ ELSE "active",
                            !.absent = @ \cup {t.val.id}]]
    /\ UNCHANGED <<nRaw, nOut, pvars>>

\* insert_paper for the record at hand, once the statement does not wait
WriterInsert(w) ==
    LET wr == writers[w]
        rec == WriterRecord(w).val
        r == InsertSql(View(w), rec, wr.now)
    IN
    /\ wr.pc = "insert"
    /\ wr.tx # "failed" => ~Blocked(w, rec)
    /\ writers' =
         [writers EXCEPT ![w] =
            IF wr.tx = "failed" \/ ~r.ok
            THEN \* the statement is rejected: the transaction is aborted and
                 \* what it wrote is gone
                 Advance([wr EXCEPT !.tx = "failed", !.own = {}], "error")
            ELSE Advance([wr EXCEPT !.tx = "active",
                                    !.own = r.table \ db,
                                    !.inserted = @ \cup {rec.id},
                                    !.updated = IF rec.id \in Ids(View(w))
                                                THEN @ \cup {rec.id} ELSE @],
                         "inserted")]
    /\ UNCHANGED <<nRaw, nOut, pvars>>

\* self.connection.commit() after the batch
WriterCommit(w) ==
    LET wr == writers[w] IN
    /\ wr.pc = "commit"
    /\ db' = IF wr.tx = "failed" THEN db ELSE View(w)
    /\ writers' = [writers EXCEPT ![w] = [wr EXCEPT !.pc = "done", !.tx = "idle", !.own = {},
                                       !.rolled_back = (wr.tx = "failed")]]
    /\ UNCHANGED <<script, run, pc, hashSeed, connection, total_count, all_papers, page_num,
                   papers, stats, overall, bi, bj, bstats, result, failure, exitCode,
                   src, pageRequests, bulkCalls, pageErrors, backup, tableExists, work,
                   txState, faults, entries, batches, stages, start, acquired,
                   released, wrote, test_results, check_raised, log, nRaw, nOut>>

InitConcurrent ==
    /\ InitProcess("pipeline", "concurrent", {EmptyTable}, {<<>>}, 0)
    /\ nRaw = EmptyObj
    /\ nOut = <<>>
    /\ \E inputs \in WriterInputs :
          writers = [w \in Writers |->
                        [pc |-> "check", papers |-> inputs[w], k |-> 1, now |-> w,
                         tx |-> "idle", own |-> {},
                         stats |-> NewBatchStats(Len(inputs[w])),
                         absent |-> {}, inserted |-> {}, updated |-> {},
                         rolled_back |-> FALSE]]

NextConcurrent ==
    \E w \in Writers : WriterCheck(w) \/ WriterInsert(w) \/ WriterCommit(w)

SpecConcurrent == InitConcurrent /\ [][NextConcurrent]_vars

----------------------------------------------------------------------------
(* Concurrent runs (checked under SpecConcurrent).                         *)

\* both processes have committed, and neither commit was that of an
\* aborted transaction
BothDone == \A w \in Writers : writers[w].pc = "done" /\ ~writers[w].rolled_back

\* the identifiers both processes counted as inserted
InsertedByBoth == writers[1].inserted \cap writers[2].inserted

\* the record of identifier id in the batch of writer w
RecordOf(w, id) ==
    LET wr == writers[w]
        k == CHOOSE j \in DOMAIN wr.papers : TransformPaperData(wr.papers[j], 0).val.id = id
    IN  TransformPaperData(wr.papers[k], 0).val

\* C26: concurrent runs are unsafe.  The store never holds two rows with
\* one identifier, whatever the interleaving; a record both processes
\* counted as inserted was reported absent to both, its write by the later
\* process took the on-conflict branch, and once both have committed the
\* store holds one row for it: the row the earlier process inserted with
\* its mutable fields overwritten by the later one, so that the inserted
\* counters sum to more than the rows added.
C26_ConcurrentRuns ==
    /\ \A r1, r2 \in db : r1.id = r2.id => r1 = r2
    /\ \A w \in Writers : \A r1, r2 \in View(w) : r1.id = r2.id => r1 = r2
    /\ \A id \in InsertedByBoth :
          /\ \A w \in Writers : id \in writers[w].absent
          /\ \E w \in Writers :
                /\ id \in writers[w].updated
                /\ id \notin writers[Other(w)].updated
                /\ BothDone =>
                      {r \in db : r.id = id} =
                          {UpdatedRow(NewRow(RecordOf(Other(w), id), writers[Other(w)].now),
                                      RecordOf(w, id), writers[w].now)}
    /\ (\A w \in Writers : writers[w].pc = "done") =>
          writers[1].stats.inserted + writers[2].stats.inserted
              >= Cardinality(db) + Cardinality(InsertedByBoth)

\* both checks of W1 reported it absent, both processes counted it as
\* inserted and have committed; the store holds one row for it, with the
\* doi the earlier process wrote and the title the later one wrote, and the
\* inserted counters sum to more than the rows added
C26_BothCountedInserted ==
    /\ BothDone
    /\ InsertedByBoth # {}
    /\ \A w \in Writers : InsertedByBoth \subseteq writers[w].absent
    /\ InsertedByBoth \subseteq writers[2].updated
    /\ writers[1].stats.inserted + writers[2].stats.inserted > Cardinality(db)
    /\ \E r \in db :
          /\ r.id \in InsertedByBoth
          /\ r.doi = RecordOf(1, r.id).doi
          /\ r.doi # RecordOf(2, r.id).doi
          /\ r.title = RecordOf(2, r.id).title
          /\ r.title # RecordOf(1, r.id).title

====
